---- MODULE Spec2Model ----
(***************************************************************************)
(* A model of LoopIdiomRecognize (src/unnamed/part_001): the driver        *)
(* runOnLoop, the countable-loop rewriter (memset / memcpy formation), and *)
(* the noncountable idiom matchers (bcmp, popcount, ctlz/cttz).            *)
(*                                                                         *)
(* Each component has its own specification over the same variables:       *)
(*   SpecBCmp   the byte-compare matcher and its CFG rewrite               *)
(*   SpecFill   the countable-loop rewriter on one loop block              *)
(*   SpecIdiom  the popcount and the find-first-set matcher                *)
(*   SpecDriver runOnLoop, twice in succession, calling the three above    *)
(* A component that is idle in a specification keeps its variables at the  *)
(* values its Idle* predicate gives them.                                  *)
(***************************************************************************)
EXTENDS Integers, Sequences, FiniteSets, TLC

\* ------------------------------------------------------------------------
\* Bounds of the model
\* ------------------------------------------------------------------------

\* Bit width of the type of the latch exit count (narrower than size_t).
CountBits == 2

\* How many bytes of the two compared buffers may differ.
MaxDiff == 2

\* Largest latch exit count of a loop that compares two-byte elements.
MaxWideCount == 1

\* Largest backedge-taken count of a countable loop.
MaxBE == 2

\* ------------------------------------------------------------------------
\* Program constants
\* ------------------------------------------------------------------------

\* Bits per byte, as detectBCmpIdiom has it.
ByteTyBits == 8

\* Instructions of the canonical shift-until-zero loop header.
IdiomCanonicalSize == 6

\* A loop body of this many instructions is too big for recognizePopcount.
PopcountBodyLimit == 20

\* ------------------------------------------------------------------------
\* Arithmetic helpers
\* ------------------------------------------------------------------------

RECURSIVE Pow2(_)
Pow2(k) == IF k = 0 THEN 1 ELSE 2 * Pow2(k - 1)

\* Bit width of size_t / the pointer-sized integer type: wide enough for
\* twice the bytes the widest count can address with 2-byte elements.
SizeBits == CountBits + 2

Min(a, b) == IF a < b THEN a ELSE b

Max(a, b) == IF a < b THEN b ELSE a

Abs(a) == IF a < 0 THEN 0 - a ELSE a

VARIABLES
  \* --- byte-compare component ---
  bcmpLoop,     \* the loop handed to recognizeBCmp (shape, buffers)
  blocks,       \* the basic blocks of the function that exist
  term,         \* terminator of each block
  phis,         \* incoming (block, value) lists of the exit blocks' PHI nodes
  dtEdges,      \* the CFG edges the dominator tree has been told about
  loopOf,       \* LoopInfo: innermost loop of each block
  curLoop,      \* CurLoop
  markedDeleted,\* loops reported to the pass manager as deleted
  seCached,     \* ScalarEvolution still caches facts of the loop
  bcmpCall,     \* the emitted {b,mem}cmp call, or NoCall
  pcB           \* position inside recognizeBCmp / transformBCmpControlFlow

varsB == <<bcmpLoop, blocks, term, phis, dtEdges, loopOf, curLoop,
           markedDeleted, seCached, bcmpCall, pcB>>

VARIABLES
  \* --- countable-loop rewriter ---
  fLoop,        \* the countable loop handed to runOnCountableLoop
  body,         \* instructions of the loop block being processed
  pre,          \* instructions the pass has put into the preheader
  qMemset,      \* StoreRefsForMemset still to process, one list per base
  qPattern,     \* StoreRefsForMemsetPattern still to process
  qCopy,        \* StoreRefsForMemcpy still to process
  attempts,     \* history: one record per rewrite attempt so far
  madeChange,   \* MadeChange of the current run
  scan,         \* the last scan of the block for memsets
  pcF           \* position inside runOnCountableLoop / runOnLoopBlock

varsF == <<fLoop, body, pre, qMemset, qPattern, qCopy, attempts, madeChange, scan,
           pcF>>

VARIABLES
  \* --- popcount and find-first-set matchers ---
  idiomLoop,    \* the loop handed to recognizePopcount / recognizeAndInsertFFS
  LbCond,       \* the icmp the loop-back branch tests
  PreCond,      \* the icmp the branch of the precondition block tests
  TcPhi,        \* the trip counter the rewrite puts into the loop, if any
  newInsts,     \* instructions the rewrite has inserted, in order
  replaced,     \* which uses outside the loop now read NewCount
  forgotten,    \* SE->forgetLoop(CurLoop) has been called
  matched,      \* the idiom that has been rewritten: "none", "popcount", "ffs"
  pcN           \* the matcher to run next, or its outcome

varsN == <<idiomLoop, LbCond, PreCond, TcPhi, newInsts, replaced, forgotten,
           matched, pcN>>

VARIABLES
  \* --- the driver ---
  hasPreheader, \* L->getLoopPreheader() is not null
  fnName,       \* name of the function the loop is in
  countable,    \* SE knows a loop-invariant backedge-taken count of the
                \* loop as it entered the pass
  tried,        \* history: the matchers the current run has called, with
                \* what each returned
  rets,         \* what the finished runs of runOnLoop returned
  snap,         \* history: the loop as the first run left it
  pcD           \* position inside runOnLoop / runOnNoncountableLoop

varsD == <<hasPreheader, fnName, countable, tried, rets, snap, pcD>>

vars == <<varsB, varsF, varsN, varsD>>

\* What an action of one component leaves alone.
notB == <<varsF, varsN, varsD>>

notF == <<varsB, varsN, varsD>>

notN == <<varsB, varsF, varsD>>

\* ========================================================================
\* Byte-compare idiom
\* ========================================================================

AllBlocks == {"Entry", "Pre", "Hdr", "Latch", "S0", "S1",
              "PhPre", "PhSucc", "Eq", "Uneq"}

ExitBlockNames == {"S0", "S1"}

BrTo(b) == [k |-> "br", c |-> "none", t |-> b, f |-> b]

CondBr(c, t, f) == [k |-> "condbr", c |-> c, t |-> t, f |-> f]

Unreachable == [k |-> "unreachable", c |-> "none", t |-> "none", f |-> "none"]

NoTerm == [k |-> "none", c |-> "none", t |-> "none", f |-> "none"]

NoCall == [fn |-> "none", a |-> "none", b |-> "none", len |-> 0]

Succs(tm, b) ==
  CASE tm[b].k = "br" -> {tm[b].t}
    [] tm[b].k = "condbr" -> {tm[b].t, tm[b].f}
    [] OTHER -> {}

CfgEdges(tm, bs) == {e \in bs \X AllBlocks : e[2] \in Succs(tm, e[1])}

Preds(tm, bs, b) == {p \in bs : b \in Succs(tm, p)}

\* Terminator::replaceSuccessorWith
ReplaceSuccessorWith(t, old, new) ==
  [t EXCEPT !.t = IF @ = old THEN new ELSE @,
            !.f = IF @ = old THEN new ELSE @]

\* BasicBlock::replacePhiUsesWith: the first incoming entry of the PHI that
\* names Old now names New.
RECURSIVE ReplacePhiUse(_, _, _)
ReplacePhiUse(inc, old, new) ==
  IF inc = <<>> THEN <<>>
  ELSE IF Head(inc).blk = old
       THEN <<[Head(inc) EXCEPT !.blk = new]>> \o Tail(inc)
       ELSE <<Head(inc)>> \o ReplacePhiUse(Tail(inc), old, new)

\* PHINode::getIncomingValueForBlock
RECURSIVE IncomingValueForBlock(_, _)
IncomingValueForBlock(inc, b) ==
  IF inc = <<>> THEN "novalue"
  ELSE IF Head(inc).blk = b THEN Head(inc).val
       ELSE IncomingValueForBlock(Tail(inc), b)

\* ------------------------------------------------------------------------
\* The loops handed to the matcher
\* ------------------------------------------------------------------------

MaxExitCount == Pow2(CountBits) - 1

\* Number of bytes of each compared buffer: the original loop compares
\* n + 1 elements of eb bytes when it runs to the latch exit.
BufLen(n, eb) == (n + 1) * eb

DiffSets(n, eb) ==
  {D \in SUBSET (0 .. BufLen(n, eb) - 1) : Cardinality(D) <= MaxDiff}

\* The loop handed to recognizeBCmp, with everything detectBCmpIdiom reads.
\*   pred              predicate of the header icmp
\*   hdrLatchFirst     the header branch names the latch as its true successor
\*   latchFinishFirst  the latch branch names its exit as its true successor
\*   sameExit          both exit edges lead to the same block
\*   nested            the loop has a parent loop
\*   n                 the latch exit count, a value of the exitCountBits type
\*   eb                byte width of the compared element; elemBits its bits
\*   samePtr           both loads read the same buffer
\*   diff              byte offsets at which buffer "b" differs from "a"
\*   hdrTwin           both successors of the header's branch are the latch
\*   latchTwin         both successors of the latch's branch are the header
BCmpLoop(p, se, lf, ne, n, eb, sp, D, hb) ==
  [pred |-> p, hdrLatchFirst |-> (p = "EQ"), latchFinishFirst |-> lf,
   sameExit |-> se, nested |-> ne, n |-> n, eb |-> eb, elemBits |-> eb * ByteTyBits,
   samePtr |-> sp, diff |-> D, hasMemCmp |-> TRUE, hasBCmp |-> hb,
   numBlocks |-> 2, simplifyForm |-> TRUE, hdrBrOnICmp |-> TRUE,
   cmpOfLoads |-> TRUE, valueFromLoop |-> FALSE, sideEffect |-> FALSE,
   addRec |-> TRUE, stepA |-> eb, stepB |-> eb, srcAvailable |-> TRUE,
   exitCountKnown |-> TRUE, exitCountBits |-> CountBits,
   simpleLoads |-> TRUE, addrSpace |-> 0, hdrTwin |-> FALSE, latchTwin |-> FALSE]

\* Two loads of one buffer see no difference, whatever "b" holds.
GoodBCmpLoops(n, eb) ==
  { BCmpLoop(p, se, lf, ne, n, eb, FALSE, D, hb) :
      p \in {"EQ", "NE"}, se \in BOOLEAN, lf \in BOOLEAN,
      ne \in BOOLEAN, hb \in BOOLEAN, D \in DiffSets(n, eb) } \cup
  { BCmpLoop(p, se, lf, ne, n, eb, TRUE, {}, hb) :
      p \in {"EQ", "NE"}, se \in BOOLEAN, lf \in BOOLEAN,
      ne \in BOOLEAN, hb \in BOOLEAN }

\* Loops that differ from an accepted one in a single respect.
BaseBCmpLoop == BCmpLoop("EQ", FALSE, TRUE, FALSE, 1, 1, FALSE, {1}, TRUE)

OddBCmpLoops ==
  { [BaseBCmpLoop EXCEPT !.numBlocks = 3],
    [BaseBCmpLoop EXCEPT !.simplifyForm = FALSE],
    [BaseBCmpLoop EXCEPT !.hdrBrOnICmp = FALSE],
    [BaseBCmpLoop EXCEPT !.cmpOfLoads = FALSE],
    [BaseBCmpLoop EXCEPT !.pred = "ULT"],
    [BaseBCmpLoop EXCEPT !.hdrLatchFirst = FALSE],
    [BaseBCmpLoop EXCEPT !.valueFromLoop = TRUE],
    [BaseBCmpLoop EXCEPT !.sideEffect = TRUE],
    [BaseBCmpLoop EXCEPT !.addRec = FALSE],
    [BaseBCmpLoop EXCEPT !.stepB = 2],
    [BaseBCmpLoop EXCEPT !.stepA = 2, !.stepB = 2],
    [BaseBCmpLoop EXCEPT !.srcAvailable = FALSE],
    [BaseBCmpLoop EXCEPT !.exitCountKnown = FALSE],
    [BaseBCmpLoop EXCEPT !.exitCountBits = SizeBits + 1],
    [BaseBCmpLoop EXCEPT !.elemBits = 12],
    [BaseBCmpLoop EXCEPT !.simpleLoads = FALSE],
    [BaseBCmpLoop EXCEPT !.addrSpace = 1],
    [BaseBCmpLoop EXCEPT !.hasMemCmp = FALSE, !.hasBCmp = FALSE],
    [BaseBCmpLoop EXCEPT !.latchTwin = TRUE, !.exitCountKnown = FALSE] } \cup
  { [BaseBCmpLoop EXCEPT !.hdrTwin = TRUE, !.nested = ne, !.diff = D, !.pred = p] :
      ne \in BOOLEAN, D \in {{}, {0}}, p \in {"EQ", "NE"} }

HdrExit(lp) == "S0"

LatchExit(lp) == IF lp.sameExit THEN "S0" ELSE "S1"

Ret == [k |-> "ret", c |-> "none", t |-> "none", f |-> "none"]

\* The CFG of the function before the pass runs.
InitTerm(lp) ==
  [b \in AllBlocks |->
     CASE b = "Entry" -> BrTo("Pre")
       [] b = "Pre" -> BrTo("Hdr")
       [] b = "Hdr" -> IF lp.hdrTwin THEN CondBr("hdr", "Latch", "Latch")
                       ELSE IF lp.hdrLatchFirst
                       THEN CondBr("hdr", "Latch", HdrExit(lp))
                       ELSE CondBr("hdr", HdrExit(lp), "Latch")
       [] b = "Latch" -> IF lp.latchTwin THEN CondBr("latch", "Hdr", "Hdr")
                         ELSE IF lp.latchFinishFirst
                         THEN CondBr("latch", LatchExit(lp), "Hdr")
                         ELSE CondBr("latch", "Hdr", LatchExit(lp))
       [] b \in ExitBlockNames -> Ret
       [] OTHER -> NoTerm]

InitBlocks(lp) ==
  {"Entry", "Pre", "Hdr", "Latch"} \cup
  (IF lp.hdrTwin THEN {} ELSE {"S0"}) \cup
  (IF lp.sameExit \/ lp.latchTwin THEN {} ELSE {"S1"})

\* One PHI per exit block; the loop is in LCSSA and simplified form, so
\* every predecessor of an exit block is a loop block.
InitPhis(lp) ==
  LET vh == IF lp.valueFromLoop THEN "loopdef" ELSE "vHdr"
      hdr == IF lp.hdrTwin THEN <<>> ELSE <<[blk |-> "Hdr", val |-> vh]>>
      latch == IF lp.latchTwin THEN <<>> ELSE <<[blk |-> "Latch", val |-> "vLatch"]>>
  IN
  IF lp.sameExit
  THEN [b \in ExitBlockNames |-> IF b = "S0" THEN hdr \o latch ELSE <<>>]
  ELSE [b \in ExitBlockNames |-> IF b = "S0" THEN hdr ELSE latch]

InitLoopOf(lp) ==
  LET outer == IF lp.nested THEN "Parent" ELSE "none" IN
  [b \in AllBlocks |->
     CASE b \in {"Hdr", "Latch"} -> "L"
       [] b \in {"Entry", "Pre", "S0", "S1"} -> outer
       [] OTHER -> "none"]

\* ------------------------------------------------------------------------
\* Memory and the meaning of the comparisons
\* ------------------------------------------------------------------------

\* Byte k of a buffer; buffer "b" differs from "a" exactly at lp.diff.
ByteAt(lp, buf, k) == IF buf = "b" /\ k \in lp.diff THEN 1 ELSE 0

SrcA(lp) == "a"

SrcB(lp) == IF lp.samePtr THEN "a" ELSE "b"

\* The header's icmp on the elements loaded in iteration i.
ElementsEqual(lp, i) ==
  \A j \in 0 .. lp.eb - 1 :
     ByteAt(lp, SrcA(lp), i * lp.eb + j) = ByteAt(lp, SrcB(lp), i * lp.eb + j)

\* bcmp(a, b, len) == 0, and memcmp(a, b, len) == 0 alike.
CmpCallEqual(lp, call) ==
  \A k \in 0 .. call.len - 1 : ByteAt(lp, call.a, k) = ByteAt(lp, call.b, k)

\* ------------------------------------------------------------------------
\* detectBCmpIdiom
\* ------------------------------------------------------------------------

\* Each comparison is done on this many bytes.
BCmpTyBytes(lp) == lp.elemBits \div ByteTyBits

\* matchBCmpLoopStructure: header and latch both end in a conditional
\* branch on a compare (the header's an icmp).
matchBCmpLoopStructure(lp, tm) ==
  /\ lp.hdrBrOnICmp
  /\ tm["Hdr"].k = "condbr"
  /\ tm["Latch"].k = "condbr"

\* matchBCmpOfLoads: an equality icmp of two loads.
matchBCmpOfLoads(lp) ==
  /\ lp.cmpOfLoads
  /\ lp.pred \in {"EQ", "NE"}

\* The canonicalised successors recognizeBCmpLoopControlFlow works with.
HeaderBrEqualBB(lp, tm) ==
  IF lp.pred # "EQ" THEN tm["Hdr"].f ELSE tm["Hdr"].t

HeaderBrUnequalBB(lp, tm) ==
  IF lp.pred # "EQ" THEN tm["Hdr"].t ELSE tm["Hdr"].f

LatchBrContinueBB(tm) ==
  IF tm["Latch"].f # "Hdr" THEN tm["Latch"].t ELSE tm["Latch"].f

LatchBrFinishBB(tm) ==
  IF tm["Latch"].f # "Hdr" THEN tm["Latch"].f ELSE tm["Latch"].t

\* No PHI of an exit block takes, from a loop block, a value the loop defines.
NoLoopValueUsedOutside(ph) ==
  \A x \in ExitBlockNames : \A k \in 1 .. Len(ph[x]) :
     ph[x][k].blk \in {"Hdr", "Latch"} => ph[x][k].val # "loopdef"

recognizeBCmpLoopControlFlow(lp, tm, ph) ==
  /\ HeaderBrEqualBB(lp, tm) = "Latch"
  /\ LatchBrContinueBB(tm) = "Hdr"
  /\ NoLoopValueUsedOutside(ph)
  /\ ~lp.sideEffect

\* Iterations: the latch exit count plus one, in the exit count's own type.
BCmpIterations(lp) == (lp.n + 1) % Pow2(lp.exitCountBits)

\* A faulty variant: any common step of the two addresses will do.
recognizeBCmpLoopSCEVAnyStep(lp) ==
  /\ lp.addRec
  /\ lp.stepA = lp.stepB
  /\ lp.srcAvailable
  /\ lp.exitCountKnown
  /\ lp.exitCountBits <= SizeBits

recognizeBCmpLoopSCEV(lp) ==
  /\ lp.addRec
  /\ lp.stepA = lp.stepB
  /\ lp.stepA = BCmpTyBytes(lp)
  /\ lp.srcAvailable
  /\ lp.exitCountKnown
  /\ lp.exitCountBits <= SizeBits

\* NBytes: Iterations zero-extended to size_t, times the element's bytes.
BCmpNBytes(lp) == (BCmpIterations(lp) * BCmpTyBytes(lp)) % Pow2(SizeBits)

detectBCmpIdiom(lp, tm, ph) ==
  /\ lp.simplifyForm
  /\ lp.numBlocks <= 2
  /\ matchBCmpLoopStructure(lp, tm)
  /\ matchBCmpOfLoads(lp)
  /\ recognizeBCmpLoopControlFlow(lp, tm, ph)
  /\ lp.elemBits % ByteTyBits = 0
  /\ recognizeBCmpLoopSCEV(lp)
  /\ lp.addrSpace = 0
  /\ lp.simpleLoads

\* ------------------------------------------------------------------------
\* transformLoopToBCmp / transformBCmpControlFlow
\* ------------------------------------------------------------------------

LoopBlocks == {"Hdr", "Latch"}

\* DominatorTree::applyUpdates on the edge set the tree knows.
RECURSIVE ApplyUpdates(_, _)
ApplyUpdates(edges, upd) ==
  IF upd = <<>> THEN edges
  ELSE ApplyUpdates(IF Head(upd).op = "Insert"
                    THEN edges \cup {<<Head(upd).from, Head(upd).to>>}
                    ELSE edges \ {<<Head(upd).from, Head(upd).to>>},
                    Tail(upd))

DTInsert(a, b) == [op |-> "Insert", from |-> a, to |-> b]

DTDelete(a, b) == [op |-> "Delete", from |-> a, to |-> b]

\* Loop::getExitEdges: per loop block, in block order, each successor
\* outside the loop.
ExitEdgesOf(tm, b) ==
  (IF tm[b].t \notin LoopBlocks THEN << <<b, tm[b].t>> >> ELSE <<>>) \o
  (IF tm[b].k = "condbr" /\ tm[b].f \notin LoopBlocks
   THEN << <<b, tm[b].f>> >> ELSE <<>>)

LoopExitEdges(tm) == ExitEdgesOf(tm, "Hdr") \o ExitEdgesOf(tm, "Latch")

\* The block that stands for leaving the loop from OldBB.
GetReplacementBB(oldBB) == IF oldBB = "Latch" THEN "Eq" ELSE "Uneq"

\* A faulty variant: the successor's PHIs are left alone.
RewireExitKeepsPhis(st, edge) ==
  [tm |-> [st.tm EXCEPT ![GetReplacementBB(edge[1])] = BrTo(edge[2]),
                        ![edge[1]] = ReplaceSuccessorWith(@, edge[2], "PhSucc")],
   ph |-> st.ph,
   upd |-> st.upd \o <<DTInsert(GetReplacementBB(edge[1]), edge[2]),
                       DTDelete(edge[1], edge[2]), DTInsert(edge[1], "PhSucc")>>]

\* One round of the loop over the exit edges: the new block branches to the
\* successor, the successor's PHIs name the new block, the loop block exits
\* to the phony successor.
RewireExit(st, edge) ==
  LET oldBB == edge[1]
      succBB == edge[2]
      newBB == GetReplacementBB(oldBB)
  IN [tm |-> [st.tm EXCEPT ![newBB] = BrTo(succBB),
                           ![oldBB] = ReplaceSuccessorWith(@, succBB, "PhSucc")],
      ph |-> [st.ph EXCEPT ![succBB] = ReplacePhiUse(@, oldBB, newBB)],
      upd |-> st.upd \o <<DTInsert(newBB, succBB), DTDelete(oldBB, succBB),
                          DTInsert(oldBB, "PhSucc")>>]

RECURSIVE RewireExits(_, _)
RewireExits(st, edges) ==
  IF edges = <<>> THEN st
  ELSE RewireExits(RewireExit(st, Head(edges)), Tail(edges))

\* Loop::getUniqueExitBlocks
ExitBlocks(tm) == {LoopExitEdges(tm)[k][2] : k \in 1 .. Len(LoopExitEdges(tm))}

\* The assertion of recognizeBCmpLoopControlFlow on the exit blocks.
ExitBlocksAssertion(lp, tm) ==
  /\ HeaderBrEqualBB(lp, tm) \notin ExitBlocks(tm)
  /\ HeaderBrUnequalBB(lp, tm) \in ExitBlocks(tm)
  /\ LatchBrContinueBB(tm) \notin ExitBlocks(tm)
  /\ LatchBrFinishBB(tm) \in ExitBlocks(tm)

\* detectBCmpIdiom comes to the assertion of recognizeBCmpLoopControlFlow.
ReachesExitBlocksAssertion(lp, tm) ==
  /\ lp.hasMemCmp \/ lp.hasBCmp
  /\ lp.simplifyForm
  /\ lp.numBlocks <= 2
  /\ matchBCmpLoopStructure(lp, tm)
  /\ matchBCmpOfLoads(lp)
  /\ HeaderBrEqualBB(lp, tm) = "Latch"
  /\ LatchBrContinueBB(tm) = "Hdr"

\* A build with assertions stops at the assertion that does not hold; a
\* build without them goes on, through BCmpReject or BCmpEmitCall.
BCmpAssertFails ==
  /\ pcB = "start"
  /\ ReachesExitBlocksAssertion(bcmpLoop, term)
  /\ ~ExitBlocksAssertion(bcmpLoop, term)
  /\ pcB' = "aborted"
  /\ UNCHANGED notB
  /\ UNCHANGED <<bcmpLoop, blocks, term, phis, dtEdges, loopOf, curLoop,
                 markedDeleted, seCached, bcmpCall>>

\* recognizeBCmp gives up: no compare function, or detectBCmpIdiom fails.
BCmpReject ==
  /\ pcB = "start"
  /\ ~((bcmpLoop.hasMemCmp \/ bcmpLoop.hasBCmp) /\
       detectBCmpIdiom(bcmpLoop, term, phis))
  /\ pcB' = "rejected"
  /\ UNCHANGED notB
  /\ UNCHANGED <<bcmpLoop, blocks, term, phis, dtEdges, loopOf, curLoop,
                 markedDeleted, seCached, bcmpCall>>

\* transformLoopToBCmp up to the call of transformBCmpControlFlow: the
\* sources and the byte count are expanded in the preheader, the compare
\* function is called on them.
BCmpEmitCall ==
  /\ pcB = "start"
  /\ bcmpLoop.hasMemCmp \/ bcmpLoop.hasBCmp
  /\ detectBCmpIdiom(bcmpLoop, term, phis)
  /\ bcmpCall' = [fn |-> IF bcmpLoop.hasBCmp THEN "bcmp" ELSE "memcmp",
                  a |-> SrcA(bcmpLoop), b |-> SrcB(bcmpLoop),
                  len |-> BCmpNBytes(bcmpLoop)]
  /\ pcB' = "emitted"
  /\ UNCHANGED notB
  /\ UNCHANGED <<bcmpLoop, blocks, term, phis, dtEdges, loopOf, curLoop,
                 markedDeleted, seCached>>

\* Stages (0/6) to (2/6): SCEV forgets the loop, the preheader loses its
\* branch, the phony blocks appear, the exits are rewired.
BCmpDetachLoop ==
  /\ pcB = "emitted"
  /\ LET tm1 == [term EXCEPT !["Pre"] = NoTerm,
                             !["PhPre"] = BrTo("Hdr"),
                             !["PhSucc"] = Unreachable]
         upd1 == <<DTDelete("Pre", "Hdr"), DTInsert("PhPre", "Hdr")>>
         st == RewireExits([tm |-> tm1, ph |-> phis, upd |-> upd1],
                           LoopExitEdges(term))
     IN /\ term' = st.tm
        /\ phis' = st.ph
        /\ dtEdges' = ApplyUpdates(dtEdges, st.upd)
  /\ blocks' = blocks \cup {"PhPre", "PhSucc", "Eq", "Uneq"}
  /\ seCached' = FALSE
  /\ pcB' = "detached"
  /\ UNCHANGED notB
  /\ UNCHANGED <<bcmpLoop, loopOf, curLoop, markedDeleted, bcmpCall>>

\* deleteDeadLoop, as stage (3/6) shows its result: the phony preheader
\* branches to the single exit, the loop's blocks are gone from the function,
\* from LoopInfo and from the dominator tree.
deleteDeadLoop(tm) ==
  [b \in AllBlocks |->
     IF b \in LoopBlocks THEN NoTerm
     ELSE IF b = "PhPre" THEN BrTo("PhSucc") ELSE tm[b]]

\* LoopDeleter.markLoopAsDeleted(CurLoop), before the loop is deleted.
BCmpMarkDeleted ==
  /\ pcB = "detached"
  /\ markedDeleted' = markedDeleted \cup {curLoop}
  /\ pcB' = "marked"
  /\ UNCHANGED notB
  /\ UNCHANGED <<bcmpLoop, blocks, term, phis, dtEdges, loopOf, curLoop,
                 seCached, bcmpCall>>

BCmpDeleteLoop ==
  /\ pcB = "marked"
  /\ UNCHANGED markedDeleted
  /\ term' = deleteDeadLoop(term)
  /\ blocks' = blocks \ LoopBlocks
  /\ dtEdges' = {e \in dtEdges : e[1] \notin LoopBlocks /\ e[2] \notin LoopBlocks}
                  \cup {<<"PhPre", "PhSucc">>}
  /\ loopOf' = [b \in AllBlocks |-> IF b \in LoopBlocks THEN "none" ELSE loopOf[b]]
  /\ curLoop' = "null"
  /\ pcB' = "deleted"
  /\ UNCHANGED notB
  /\ UNCHANGED <<bcmpLoop, phis, seCached, bcmpCall>>

\* Stage (4/6): the preheader branches to the phony preheader, the phony
\* successor becomes the dispatch block.
BCmpRestoreCFG ==
  /\ pcB = "deleted"
  /\ term' = [term EXCEPT !["Pre"] = BrTo("PhPre"),
                          !["PhSucc"] = CondBr("cmpeq", "Eq", "Uneq")]
  /\ dtEdges' = ApplyUpdates(dtEdges,
                   <<DTInsert("PhPre", "Hdr"), DTInsert("PhSucc", "Eq"),
                     DTInsert("PhSucc", "Uneq")>>)
  /\ pcB' = "restored"
  /\ UNCHANGED notB
  /\ UNCHANGED <<bcmpLoop, blocks, phis, loopOf, curLoop, markedDeleted,
                 seCached, bcmpCall>>

\* MergeBasicBlockIntoOnlyPred(BB): BB takes over its only predecessor.
MergedPred(tm, bs, bb) == CHOOSE p \in Preds(tm, bs, bb) : TRUE

MergeBasicBlockIntoOnlyPred(tm, bs, bb) ==
  LET p == MergedPred(tm, bs, bb) IN
  [b \in AllBlocks |->
     IF b = p THEN NoTerm ELSE ReplaceSuccessorWith(tm[b], p, bb)]

MergeUpdates(tm, bs, bb) ==
  LET p == MergedPred(tm, bs, bb) IN
  {<<q, p>> : q \in Preds(tm, bs, p)} \cup {<<p, bb>>}

MergeDT(edges, tm, bs, bb) ==
  LET p == MergedPred(tm, bs, bb) IN
  (edges \ MergeUpdates(tm, bs, bb)) \cup {<<q, bb>> : q \in Preds(tm, bs, p)}

\* Stage (5/6): the dispatch block swallows the phony preheader.
BCmpMergeDispatch ==
  /\ pcB = "restored"
  /\ term' = MergeBasicBlockIntoOnlyPred(term, blocks, "PhSucc")
  /\ blocks' = blocks \ {MergedPred(term, blocks, "PhSucc")}
  /\ dtEdges' = MergeDT(dtEdges, term, blocks, "PhSucc")
  /\ pcB' = "merged"
  /\ UNCHANGED notB
  /\ UNCHANGED <<bcmpLoop, phis, loopOf, curLoop, markedDeleted, seCached,
                 bcmpCall>>

\* Stage (6/6) of a top-level loop: the dispatch block swallows the
\* preheader too, which LoopInfo forgets.
BCmpFinishTopLevel ==
  /\ pcB = "merged"
  /\ ~bcmpLoop.nested
  /\ loopOf' = [loopOf EXCEPT !["Pre"] = "none"]
  /\ term' = MergeBasicBlockIntoOnlyPred(term, blocks, "PhSucc")
  /\ blocks' = blocks \ {MergedPred(term, blocks, "PhSucc")}
  /\ dtEdges' = MergeDT(dtEdges, term, blocks, "PhSucc")
  /\ pcB' = "done"
  /\ UNCHANGED notB
  /\ UNCHANGED <<bcmpLoop, phis, curLoop, markedDeleted, seCached, bcmpCall>>

\* A faulty variant: the successors are the other way round.
PhonyBackedgeTaken(t) == CondBr("true", "PhSucc", t.t)

\* The never-taken back edge of an outcome block of the phony loop.
PhonyBackedge(t) == CondBr("true", t.t, "PhSucc")

\* cast<BranchInst>(BB->getTerminator()) of a block that has no terminator
\* reads through a null pointer: the branch it yields is anything.
TerminatorRead(t) ==
  IF t.k = "none" THEN {BrTo(x) : x \in ExitBlockNames} ELSE {t}

\* The read through the null pointer stops the run.
BCmpNullTerminator ==
  /\ pcB = "merged"
  /\ bcmpLoop.nested
  /\ term["Eq"].k = "none" \/ term["Uneq"].k = "none"
  /\ pcB' = "crashed"
  /\ UNCHANGED notB
  /\ UNCHANGED <<bcmpLoop, blocks, term, phis, dtEdges, loopOf, curLoop,
                 markedDeleted, seCached, bcmpCall>>

\* Stage (6/6) of a nested loop: the three new blocks form a phony loop in
\* the parent, each outcome block with a back edge to the dispatch block.
BCmpFinishNested ==
  /\ pcB = "merged"
  /\ bcmpLoop.nested
  /\ loopOf' = [loopOf EXCEPT !["PhSucc"] = "Phony", !["Eq"] = "Phony",
                              !["Uneq"] = "Phony"]
  /\ \E te \in TerminatorRead(term["Eq"]), tu \in TerminatorRead(term["Uneq"]) :
        /\ term' = [term EXCEPT !["Eq"] = PhonyBackedge(te),
                                !["Uneq"] = PhonyBackedge(tu)]
        /\ dtEdges' = ApplyUpdates(dtEdges,
              <<DTDelete("Eq", te.t), DTInsert("Eq", te.t), DTInsert("Eq", "PhSucc"),
                DTDelete("Uneq", tu.t), DTInsert("Uneq", tu.t),
                DTInsert("Uneq", "PhSucc")>>)
  /\ pcB' = "done"
  /\ UNCHANGED notB
  /\ UNCHANGED <<bcmpLoop, blocks, phis, curLoop, markedDeleted, seCached,
                 bcmpCall>>

\* ------------------------------------------------------------------------
\* Running the function, before and after the rewrite
\* ------------------------------------------------------------------------

\* Longest path the run may take: the loop's iterations, two blocks each,
\* and the blocks around it.
WalkFuel == 2 * Pow2(CountBits) + 8

\* The value of a branch condition in iteration i of the loop.
CondValue(lp, call, c, i) ==
  CASE c = "hdr" -> IF lp.pred = "EQ" THEN ElementsEqual(lp, i)
                    ELSE ~ElementsEqual(lp, i)
    [] c = "latch" -> IF lp.latchFinishFirst THEN i = lp.n ELSE i # lp.n
    [] c = "cmpeq" -> CmpCallEqual(lp, call)
    [] OTHER -> TRUE

\* Runs from block b, entered from prev, until a block that returns; the
\* result names that block and the edge it was entered by.
RECURSIVE Walk(_, _, _, _, _, _, _)
Walk(tm, lp, call, b, prev, i, fuel) ==
  IF fuel = 0 THEN [exit |-> "stuck", from |-> b]
  ELSE CASE tm[b].k = "ret" -> [exit |-> b, from |-> prev]
         [] tm[b].k = "br" -> Walk(tm, lp, call, tm[b].t, b, i, fuel - 1)
         [] tm[b].k = "condbr" ->
              LET nxt == IF CondValue(lp, call, tm[b].c, i)
                         THEN tm[b].t ELSE tm[b].f
              IN Walk(tm, lp, call, nxt, b,
                      IF b = "Latch" /\ nxt = "Hdr" THEN i + 1 ELSE i, fuel - 1)
         [] OTHER -> [exit |-> "stuck", from |-> b]

\* What a run observes: the exit block reached and the value its PHI yields.
Observed(tm, ph, lp, call) ==
  LET w == Walk(tm, lp, call, "Entry", "none", 0, WalkFuel) IN
  [exit |-> w.exit,
   val |-> IF w.exit \in ExitBlockNames
           THEN IncomingValueForBlock(ph[w.exit], w.from) ELSE "novalue"]

OriginalObserved == Observed(InitTerm(bcmpLoop), InitPhis(bcmpLoop), bcmpLoop, NoCall)

RewrittenObserved == Observed(term, phis, bcmpLoop, bcmpCall)

\* Every compared element of the original loop is equal.
AllElementsEqual(lp) == \A i \in 0 .. lp.n : ElementsEqual(lp, i)


\* ========================================================================
\* Countable-loop rewriter: memset / memset_pattern16 / memcpy formation
\* ========================================================================

\* ------------------------------------------------------------------------
\* Memory, instructions, and running a loop
\* ------------------------------------------------------------------------

Objs == {"A", "B"}

\* Bytes of each underlying object: room for two regions of one-byte
\* elements, or one region of two-byte elements, and a byte to spare.
ObjBytes == 2 * (MaxBE + 1) + 2

Addrs == Objs \X (0 .. ObjBytes - 1)

\* The byte an undef value leaves in memory.
UndefByte == 0 - 1

\* Memory before the program runs: every byte distinct.
InitMem == [a \in Addrs |-> 100 + (IF a[1] = "A" THEN 0 ELSE ObjBytes) + a[2]]

\* Stored values: a constant of some bytes, undef, a loop-variant value, or
\* the value a load of the loop yields.
ConstVal(bytes) == [k |-> "const", bytes |-> bytes, of |-> 0]

UndefVal == [k |-> "undef", bytes |-> <<>>, of |-> 0]

VariantVal == [k |-> "var", bytes |-> <<>>, of |-> 0]

LoadedVal(id) == [k |-> "load", bytes |-> <<>>, of |-> id]

NoVal == [k |-> "none", bytes |-> <<>>, of |-> 0]

\* A store of the loop: `start` is the byte offset it writes in iteration 0,
\* `stride` the bytes its address advances per iteration.  Further:
\*   atomic, ordered   an atomic access; one ordered above `unordered`
\*   nonIntegral       the value is a pointer of a non-integral type
\*   nontemporal       the access carries !nontemporal metadata
\*   size, oddBits     the value type has 8 * size bits if oddBits = 0,
\*                     8 * (size - 1) + oddBits bits otherwise
\*   ev                the SCEV of the address: an affine AddRec of this
\*                     loop ("addrec"), an AddRec of another loop
\*                     ("other"), a non-affine AddRec ("nonaffine") or no
\*                     AddRec ("none")
\*   strideConst       the step of the AddRec is a SCEVConstant
\*   addrSpace         the address space of the pointer
StoreI(id, obj, start, stride, size, val) ==
  [id |-> id, op |-> "store", obj |-> obj, start |-> start, stride |-> stride,
   size |-> size, val |-> val, volatile |-> FALSE, atomic |-> FALSE,
   align |-> size, ordered |-> FALSE, nonIntegral |-> FALSE,
   nontemporal |-> FALSE, oddBits |-> 0, ev |-> "addrec",
   strideConst |-> TRUE, addrSpace |-> 0]

LoadI(id, obj, start, stride, size) ==
  [id |-> id, op |-> "load", obj |-> obj, start |-> start, stride |-> stride,
   size |-> size, val |-> NoVal, volatile |-> FALSE, atomic |-> FALSE,
   align |-> size, ordered |-> FALSE, nonIntegral |-> FALSE,
   nontemporal |-> FALSE, oddBits |-> 0, ev |-> "addrec",
   strideConst |-> TRUE, addrSpace |-> 0]

\* A memset intrinsic of the loop, of constant length `size`.
MemSetI(id, obj, start, stride, size, val) ==
  [id |-> id, op |-> "memset", obj |-> obj, start |-> start, stride |-> stride,
   size |-> size, val |-> val, volatile |-> FALSE, atomic |-> FALSE,
   align |-> 1, ordered |-> FALSE, nonIntegral |-> FALSE,
   nontemporal |-> FALSE, oddBits |-> 0, ev |-> "addrec",
   strideConst |-> TRUE, addrSpace |-> 0]

\* Instructions the pass puts into the preheader.
ExpandI(what) ==
  [op |-> "expand", what |-> what, obj |-> "A", start |-> 0, len |-> 0,
   bytes |-> <<>>, srcObj |-> "A", srcStart |-> 0, atomic |-> FALSE]

MemSetCall(obj, start, len, byte) ==
  [op |-> "memset", what |-> "call", obj |-> obj, start |-> start, len |-> len,
   bytes |-> <<byte>>, srcObj |-> "A", srcStart |-> 0, atomic |-> FALSE]

MemSetPatternCall(obj, start, len, bytes) ==
  [op |-> "memset_pattern16", what |-> "call", obj |-> obj, start |-> start,
   len |-> len, bytes |-> bytes, srcObj |-> "A", srcStart |-> 0,
   atomic |-> FALSE]

MemCpyCall(obj, start, srcObj, srcStart, len, atomic) ==
  [op |-> "memcpy", what |-> "call", obj |-> obj, start |-> start, len |-> len,
   bytes |-> <<>>, srcObj |-> srcObj, srcStart |-> srcStart, atomic |-> atomic]

IsCall(p) == p.what = "call"

\* The instruction of the block with the given id.
InstrById(b, id) == b[CHOOSE k \in 1 .. Len(b) : b[k].id = id]

Ids(b) == {b[k].id : k \in 1 .. Len(b)}

\* The block without the instructions of the given ids.
RECURSIVE EraseFromParent(_, _)
EraseFromParent(b, ids) ==
  IF b = <<>> THEN <<>>
  ELSE IF Head(b).id \in ids THEN EraseFromParent(Tail(b), ids)
       ELSE <<Head(b)>> \o EraseFromParent(Tail(b), ids)

\* deleteDeadInstruction: uses of the instruction become undef, then it goes.
ReplaceUsesWithUndef(b, ids) ==
  [k \in 1 .. Len(b) |->
     IF b[k].val.k = "load" /\ b[k].val.of \in ids
     THEN [b[k] EXCEPT !.val = UndefVal] ELSE b[k]]

deleteDeadInstruction(b, ids) == EraseFromParent(ReplaceUsesWithUndef(b, ids), ids)

\* The bytes a store puts into memory in iteration i.
ValueBytes(reg, ins, i) ==
  CASE ins.val.k = "const" -> ins.val.bytes
    [] ins.val.k = "undef" -> [j \in 1 .. ins.size |-> UndefByte]
    [] ins.val.k = "var" -> [j \in 1 .. ins.size |-> 50 + i]
    [] ins.val.k = "load" -> reg[ins.val.of]
    [] OTHER -> <<>>

WriteBytes(mem, obj, off, bytes) ==
  [a \in Addrs |->
     IF a[1] = obj /\ a[2] >= off /\ a[2] < off + Len(bytes)
     THEN bytes[a[2] - off + 1] ELSE mem[a]]

ReadBytes(mem, obj, off, n) == [j \in 1 .. n |-> mem[<<obj, off + j - 1>>]]

\* One instruction of the loop, in iteration i.
ExecInstr(st, ins, i) ==
  LET at == ins.start + i * ins.stride IN
  CASE ins.op = "store" ->
         [st EXCEPT !.mem = WriteBytes(@, ins.obj, at, ValueBytes(st.reg, ins, i))]
    [] ins.op = "load" ->
         [st EXCEPT !.reg = [@ EXCEPT ![ins.id] = ReadBytes(st.mem, ins.obj, at, ins.size)]]
    [] ins.op = "memset" ->
         [st EXCEPT !.mem = WriteBytes(@, ins.obj, at,
                               [j \in 1 .. ins.size |-> ValueBytes(st.reg, ins, i)[1]])]
    [] OTHER -> st

RECURSIVE ExecBlock(_, _, _)
ExecBlock(st, b, i) ==
  IF b = <<>> THEN st ELSE ExecBlock(ExecInstr(st, Head(b), i), Tail(b), i)

\* Iterations i .. be of the loop.
RECURSIVE ExecLoop(_, _, _, _)
ExecLoop(st, b, i, be) ==
  IF i > be THEN st ELSE ExecLoop(ExecBlock(st, b, i), b, i + 1, be)

\* One instruction of the preheader.
ExecPre(mem, p) ==
  CASE p.op = "memset" ->
         WriteBytes(mem, p.obj, p.start, [j \in 1 .. p.len |-> p.bytes[1]])
    [] p.op = "memset_pattern16" ->
         WriteBytes(mem, p.obj, p.start,
                    [j \in 1 .. p.len |-> p.bytes[((j - 1) % Len(p.bytes)) + 1]])
    [] p.op = "memcpy" ->
         WriteBytes(mem, p.obj, p.start, ReadBytes(mem, p.srcObj, p.srcStart, p.len))
    [] OTHER -> mem

RECURSIVE ExecPreheader(_, _)
ExecPreheader(mem, ps) ==
  IF ps = <<>> THEN mem ELSE ExecPreheader(ExecPre(mem, Head(ps)), Tail(ps))

\* Memory after the preheader and the loop have run.
FinalMem(ps, b, be) ==
  ExecLoop([mem |-> ExecPreheader(InitMem, ps), reg |-> [id \in 1 .. 4 |-> <<>>]],
           b, 0, be).mem

\* ------------------------------------------------------------------------
\* The countable loops handed to the rewriter
\* ------------------------------------------------------------------------

\* Offset in iteration 0 of the lowest byte of a run of |stride| = s bytes
\* that covers [0, (be + 1) * s) over the loop.
RunStart(be, neg, s) == IF neg THEN be * s ELSE 0

Dir(neg) == IF neg THEN 0 - 1 ELSE 1

Splat(n, b) == [j \in 1 .. n |-> b]

\* A single store of a splat value, stride = +-size.
FillBodies(be, neg) ==
  { <<StoreI(1, "A", RunStart(be, neg, s), Dir(neg) * s, s, ConstVal(Splat(s, 1)))>> :
      s \in {1, 2} }

\* Two adjacent one-byte stores with stride +-2, in either program order.
PairValues ==
  { <<ConstVal(<<1>>), ConstVal(<<1>>)>>, <<ConstVal(<<1>>), ConstVal(<<2>>)>>,
    <<UndefVal, ConstVal(<<1>>)>>, <<ConstVal(<<1>>), UndefVal>> }

PairBodies(be, neg) ==
  UNION { { <<StoreI(1, "A", RunStart(be, neg, 2), Dir(neg) * 2, 1, v[1]),
              StoreI(2, "A", RunStart(be, neg, 2) + 1, Dir(neg) * 2, 1, v[2])>>,
            <<StoreI(2, "A", RunStart(be, neg, 2) + 1, Dir(neg) * 2, 1, v[2]),
              StoreI(1, "A", RunStart(be, neg, 2), Dir(neg) * 2, 1, v[1])>> } :
          v \in PairValues }

\* A fill store and one more instruction at a fixed address: inside the
\* filled region, above it in the same object, or in the other object.
ExtraPlaces == { <<"A", 0>>, <<"A", ObjBytes - 1>>, <<"B", 0>> }

ExtraBodies(be, neg) ==
  UNION { { <<StoreI(1, "A", RunStart(be, neg, 1), Dir(neg), 1, ConstVal(<<1>>)),
              StoreI(2, pl[1], pl[2], 0, 1, ConstVal(<<7>>))>>,
            <<StoreI(1, "A", RunStart(be, neg, 1), Dir(neg), 1, ConstVal(<<1>>)),
              LoadI(2, pl[1], pl[2], 0, 1)>> } :
          pl \in ExtraPlaces }

\* Two fill stores of one-byte elements into disjoint halves of one object.
TwoFillBodies(be, neg) ==
  { <<StoreI(1, "A", RunStart(be, neg, 1), Dir(neg), 1, ConstVal(<<1>>)),
      StoreI(2, "A", (be + 1) + RunStart(be, neg, 1), Dir(neg), 1, ConstVal(<<2>>))>> }

\* A store of a loaded value: the source in the other object, shifted by
\* one element in the same object, or above the destination region.
CopyBodies(be, neg) ==
  { <<LoadI(1, "B", RunStart(be, neg, s), Dir(neg) * s, s),
      StoreI(2, "A", RunStart(be, neg, s), Dir(neg) * s, s, LoadedVal(1))>> :
      s \in {1, 2} } \cup
  { <<LoadI(1, "A", RunStart(be, neg, 1) + d, Dir(neg), 1),
      StoreI(2, "A", RunStart(be, neg, 1), Dir(neg), 1, LoadedVal(1))>> :
      d \in {1, be + 1} }

\* The same with an unordered-atomic load, store or both, each well or
\* badly aligned.
AtomicCopyBodies(be, neg) ==
  { <<[LoadI(1, "B", RunStart(be, neg, 2), Dir(neg) * 2, 2)
         EXCEPT !.atomic = at[1], !.align = al[1]],
      [StoreI(2, "A", RunStart(be, neg, 2), Dir(neg) * 2, 2, LoadedVal(1))
         EXCEPT !.atomic = at[2], !.align = al[2]]>> :
      at \in {<<TRUE, TRUE>>, <<TRUE, FALSE>>, <<FALSE, TRUE>>},
      al \in {<<1, 1>>, <<2, 2>>, <<1, 2>>, <<2, 1>>} }

\* A memset of the loop with length = +-stride, alone or after a fill store
\* into the other object.
MemSetBodies(be, neg) ==
  { <<MemSetI(1, "A", RunStart(be, neg, s), Dir(neg) * s, s, ConstVal(<<1>>))>> :
      s \in {1, 2} } \cup
  { <<StoreI(1, "B", RunStart(be, neg, 1), Dir(neg), 1, ConstVal(<<2>>)),
      MemSetI(2, "A", RunStart(be, neg, 1), Dir(neg), 1, ConstVal(<<1>>))>> }

\* Stores no memset can stand for: a two-byte pattern, a loop-variant
\* value, a volatile store, a store to a loop-invariant address.
OtherBodies(be, neg) ==
  { <<StoreI(1, "A", RunStart(be, neg, 2), Dir(neg) * 2, 2, ConstVal(<<1, 2>>))>>,
    <<StoreI(1, "A", RunStart(be, neg, 1), Dir(neg), 1, VariantVal)>>,
    <<[StoreI(1, "A", RunStart(be, neg, 1), Dir(neg), 1, ConstVal(<<1>>))
         EXCEPT !.volatile = TRUE]>>,
    <<StoreI(1, "A", 0, 0, 1, ConstVal(<<1>>))>> }

\* A one-byte fill store.
ByteStore(be, neg) == StoreI(1, "A", RunStart(be, neg, 1), Dir(neg), 1, ConstVal(<<1>>))

\* One store that isLegalStore turns away before it looks at the value:
\* an atomic store ordered above unordered, a non-integral pointer, a
\* nontemporal store, an i12, a value of 2^32 bits, an address that is a
\* non-affine AddRec, an AddRec of another loop or none at all, a step that
\* is not a constant.  Then an unordered-atomic store of a constant, and a
\* copy whose load is ordered.
RejectedBodies(be, neg) ==
  { <<[ByteStore(be, neg) EXCEPT !.atomic = TRUE, !.ordered = TRUE]>>,
    <<[ByteStore(be, neg) EXCEPT !.nonIntegral = TRUE]>>,
    <<[ByteStore(be, neg) EXCEPT !.nontemporal = TRUE]>>,
    <<[StoreI(1, "A", RunStart(be, neg, 2), Dir(neg) * 2, 2, ConstVal(<<1, 1>>))
         EXCEPT !.oddBits = 4]>>,
    <<[ByteStore(be, neg) EXCEPT !.size = Pow2(32 - 3)]>>,
    <<[ByteStore(be, neg) EXCEPT !.ev = "nonaffine"]>>,
    <<[StoreI(1, "A", 0, 0, 1, ConstVal(<<1>>)) EXCEPT !.ev = "other"]>>,
    <<[StoreI(1, "A", 0, 0, 1, ConstVal(<<1>>)) EXCEPT !.ev = "none"]>>,
    <<[ByteStore(be, neg) EXCEPT !.strideConst = FALSE]>>,
    <<[ByteStore(be, neg) EXCEPT !.atomic = TRUE]>>,
    <<[LoadI(1, "B", RunStart(be, neg, 1), Dir(neg), 1)
         EXCEPT !.atomic = TRUE, !.ordered = TRUE],
      StoreI(2, "A", RunStart(be, neg, 1), Dir(neg), 1, LoadedVal(1))>> }

\* Constants of s bytes, stride +-s: all bytes equal, or all different.
\* Sizes 4 and 8 are powers of two, 3 and 5 are not; the loop runs no
\* more often than the region fits the object.
SizedValues(s) == { ConstVal(Splat(s, 1)), ConstVal([j \in 1 .. s |-> j]) }

PatternBodies(be, neg) ==
  IF be > 1 THEN {}
  ELSE UNION { { <<StoreI(1, "A", RunStart(be, neg, s), Dir(neg) * s, s, v)>> :
                   v \in SizedValues(s) } :
               s \in IF be = 0 THEN {5, 8} ELSE {3, 4} } \cup
       { <<[StoreI(1, "A", RunStart(be, neg, 2), Dir(neg) * 2, 2, v)
              EXCEPT !.addrSpace = 1]>> : v \in SizedValues(2) }

\* A one-byte store of the constant v, d bytes above the start of a run of
\* stride +-s.
RunStore(id, be, neg, s, d, v) ==
  StoreI(id, "A", RunStart(be, neg, s) + d, Dir(neg) * s, 1, ConstVal(<<v>>))

\* Runs of more than two stores, and runs that do not fit their stride:
\* three adjacent bytes of a stride of 3 in two program orders; two
\* adjacent bytes of a stride of 3; a two-byte and a one-byte store ending
\* at the same byte, followed by one of the next; two stores of the same
\* byte followed by one of the next; bytes 0 and 2 of a stride of 2; a
\* one-byte store followed by a two-byte store, stride 2.
ChainBodies(be, neg) ==
  (IF be > 1 THEN {}
   ELSE { <<RunStore(1, be, neg, 3, 0, 1), RunStore(2, be, neg, 3, 1, 1),
            RunStore(3, be, neg, 3, 2, 1)>>,
          <<RunStore(3, be, neg, 3, 2, 1), RunStore(1, be, neg, 3, 0, 1),
            RunStore(2, be, neg, 3, 1, 1)>>,
          <<RunStore(1, be, neg, 3, 0, 1), RunStore(2, be, neg, 3, 1, 1)>>,
          <<StoreI(1, "A", RunStart(be, neg, 3), Dir(neg) * 3, 2, ConstVal(<<1, 1>>)),
            RunStore(2, be, neg, 3, 1, 1), RunStore(3, be, neg, 3, 2, 1)>> }) \cup
  { <<RunStore(1, be, neg, 2, 0, 1), RunStore(2, be, neg, 2, 0, 1),
      RunStore(3, be, neg, 2, 1, 1)>>,
    <<RunStore(1, be, neg, 2, 0, 1), RunStore(2, be, neg, 2, 2, 1)>>,
    <<RunStore(1, be, neg, 2, 0, 1),
      StoreI(2, "A", RunStart(be, neg, 2) + 1, Dir(neg) * 2, 2, ConstVal(<<1, 1>>))>> }

\* A copy of one-byte elements from B to A and one more instruction at a
\* fixed address: a load or a store of the first byte of the source or of
\* the destination, or a store above the source region.
CopyExtraBodies(be, neg) ==
  { <<LoadI(1, "B", RunStart(be, neg, 1), Dir(neg), 1),
      StoreI(2, "A", RunStart(be, neg, 1), Dir(neg), 1, LoadedVal(1)), x>> :
      x \in { LoadI(3, "B", 0, 0, 1), StoreI(3, "B", 0, 0, 1, ConstVal(<<7>>)),
              LoadI(3, "A", 0, 0, 1), StoreI(3, "A", 0, 0, 1, ConstVal(<<7>>)),
              StoreI(3, "B", ObjBytes - 1, 0, 1, ConstVal(<<7>>)) } }

\* Blocks with one or two instructions for each way a rewrite can go.
CoreBodies(be, neg) ==
  FillBodies(be, neg) \cup PairBodies(be, neg) \cup ExtraBodies(be, neg) \cup
  TwoFillBodies(be, neg) \cup CopyBodies(be, neg) \cup
  AtomicCopyBodies(be, neg) \cup MemSetBodies(be, neg) \cup OtherBodies(be, neg)

\* Blocks whose memset is followed by another instruction: a load, a
\* second memset.
ScanBodies(be, neg) ==
  { <<MemSetI(1, "A", RunStart(be, neg, 1), Dir(neg), 1, ConstVal(<<1>>)),
      LoadI(2, "B", RunStart(be, neg, 1), Dir(neg), 1)>>,
    <<MemSetI(1, "A", RunStart(be, neg, 1), Dir(neg), 1, ConstVal(<<1>>)),
      MemSetI(2, "B", RunStart(be, neg, 1), Dir(neg), 1, ConstVal(<<2>>))>> }

Bodies(be, neg) ==
  CoreBodies(be, neg) \cup RejectedBodies(be, neg) \cup PatternBodies(be, neg) \cup
  ChainBodies(be, neg) \cup CopyExtraBodies(be, neg) \cup ScanBodies(be, neg)

\* What the pass reads of the loop and of the analyses besides the block:
\*   be, beBits, beConst  the backedge-taken count, the width of its type,
\*                        whether it is a SCEVConstant
\*   has*                 the library functions TargetLibraryInfo offers
\*   aaPrecise            alias analysis answers exactly (else: may alias)
\*   startNeedsCode       expanding a start address emits instructions
\*   safeStart, safeNumBytes   isSafeToExpand of the two expressions
\*   optSize              ApplyCodeSizeHeuristics
\*   guarded              the loop entry is known guarded by BECount != -1
\*   atomicMax            getAtomicMemIntrinsicMaxElementSize
\*   bigEndian            DataLayout::isBigEndian
\*   inSubLoop            LI->getLoopFor(BB) is not the current loop
CountableLoop(b, be, bc) ==
  [body |-> b, be |-> be, beBits |-> CountBits, beConst |-> bc,
   hasMemset |-> TRUE, hasMemsetPattern |-> TRUE, hasMemcpy |-> TRUE,
   aaPrecise |-> TRUE, startNeedsCode |-> TRUE, safeStart |-> TRUE,
   safeNumBytes |-> TRUE, optSize |-> FALSE, numBlocks |-> 1,
   nested |-> FALSE, mayThrow |-> FALSE, dominates |-> TRUE,
   guarded |-> FALSE, atomicMax |-> 2, bigEndian |-> FALSE,
   inSubLoop |-> FALSE]

\* The settings that differ from the usual ones in one respect.
Settings(lp) ==
  (IF lp.be < Pow2(CountBits - 1)
   THEN { [lp EXCEPT !.beBits = CountBits - 1],
          [lp EXCEPT !.beBits = CountBits - 1,
                     !.guarded = (lp.be # Pow2(CountBits - 1) - 1)] }
   ELSE {}) \cup
  { lp,
    [lp EXCEPT !.hasMemset = FALSE],
    [lp EXCEPT !.hasMemsetPattern = FALSE],
    [lp EXCEPT !.hasMemcpy = FALSE],
    [lp EXCEPT !.aaPrecise = FALSE],
    [lp EXCEPT !.startNeedsCode = FALSE],
    [lp EXCEPT !.safeStart = FALSE],
    [lp EXCEPT !.safeNumBytes = FALSE],
    [lp EXCEPT !.optSize = TRUE, !.numBlocks = 2],
    [lp EXCEPT !.optSize = TRUE, !.numBlocks = 2, !.nested = TRUE],
    [lp EXCEPT !.mayThrow = TRUE],
    [lp EXCEPT !.dominates = FALSE],
    [lp EXCEPT !.inSubLoop = TRUE],
    [lp EXCEPT !.guarded = (lp.be # Pow2(lp.beBits) - 1)],
    [lp EXCEPT !.beBits = SizeBits],
    [lp EXCEPT !.atomicMax = 1],
    [lp EXCEPT !.bigEndian = TRUE] }

LoopsOf(be, neg) ==
  UNION { Settings(CountableLoop(b, be, bc)) :
            b \in Bodies(be, neg), bc \in BOOLEAN }

CountableLoops == UNION { LoopsOf(be, neg) : be \in 0 .. MaxBE, neg \in BOOLEAN }

\* ------------------------------------------------------------------------
\* isLegalStore, collectStores
\* ------------------------------------------------------------------------

\* isBytewiseValue: the byte every byte of the value equals, if there is
\* one; `inv` says whether that byte value is loop-invariant.
isBytewiseValue(val, size) ==
  CASE val.k = "const" ->
         [ok |-> \A j \in 1 .. Len(val.bytes) : val.bytes[j] = val.bytes[1],
          byte |-> val.bytes[1], inv |-> TRUE]
    [] val.k = "undef" -> [ok |-> TRUE, byte |-> UndefByte, inv |-> TRUE]
    [] OTHER -> [ok |-> size = 1, byte |-> 0, inv |-> FALSE]

\* The constant getMemSetPatternValue repeats, byte by byte.
PatternBytes(val, size) ==
  IF val.k = "const" THEN val.bytes ELSE [j \in 1 .. size |-> UndefByte]

\* Size & (Size - 1) is zero: at most one bit of Size is set.
AtMostOneBit(Size) == Size = 0 \/ \E k \in 0 .. 30 : Size = Pow2(k)

\* A faulty variant: any size up to 16 bytes will do.
getMemSetPatternValueAnySize(val, size, lp) ==
  [ok |-> /\ val.k \in {"const", "undef"}
          /\ size # 0
          /\ ~lp.bigEndian
          /\ size <= 16,
   pat |-> PatternBytes(val, size)]

\* getMemSetPatternValue: a constant of a power-of-two number of bytes, at
\* most 16, on a little-endian target; repeated it fills 16 bytes.
getMemSetPatternValue(val, size, lp) ==
  [ok |-> /\ val.k \in {"const", "undef"}
          /\ size # 0 /\ AtMostOneBit(size)
          /\ ~lp.bigEndian
          /\ size <= 16,
   pat |-> PatternBytes(val, size)]

\* A faulty variant: only the test of SizeInBits >> 32.
SizeInBitsRejectedIfHuge(SI) == SI.size >= Pow2(32 - 3)

\* SizeInBits & 7, or SizeInBits >> 32, is not zero.
SizeInBitsRejected(SI) == SI.oddBits # 0 \/ SI.size >= Pow2(32 - 3)

\* The SCEV of the pointer is an affine AddRec of the current loop.
IsAffineAddRecOfLoop(I) == I.ev = "addrec" /\ I.stride # 0

isLegalStore(lp, b, SI) ==
  LET splat == isBytewiseValue(SI.val, SI.size)
      pattern == getMemSetPatternValue(SI.val, SI.size, lp)
      UnorderedAtomic == SI.atomic
      LI == InstrById(b, SI.val.of)
  IN
  IF SI.volatile THEN "None"
  ELSE IF SI.ordered THEN "None"
  ELSE IF SI.nonIntegral THEN "None"
  ELSE IF SI.nontemporal THEN "None"
  ELSE IF SizeInBitsRejected(SI) THEN "None"
  ELSE IF ~IsAffineAddRecOfLoop(SI) THEN "None"
  ELSE IF ~SI.strideConst THEN "None"
  ELSE IF ~UnorderedAtomic /\ lp.hasMemset /\ splat.ok /\ splat.inv THEN "Memset"
  ELSE IF ~UnorderedAtomic /\ lp.hasMemsetPattern /\ SI.addrSpace = 0 /\ pattern.ok
       THEN "MemsetPattern"
  ELSE IF lp.hasMemcpy
       THEN IF SI.size # Abs(SI.stride) THEN "None"
            ELSE IF SI.val.k # "load" THEN "None"
            ELSE IF LI.volatile THEN "None"
            ELSE IF LI.ordered THEN "None"
            ELSE IF ~IsAffineAddRecOfLoop(LI) THEN "None"
            ELSE IF SI.stride # LI.stride \/ ~LI.strideConst THEN "None"
            ELSE IF UnorderedAtomic \/ LI.atomic THEN "UnorderedAtomicMemcpy"
            ELSE "Memcpy"
  ELSE "None"

\* The ids of the block's stores of the given kinds, in block order.
StoresOfKind(lp, b, kinds) ==
  LET sel == SelectSeq(b, LAMBDA x : x.op = "store" /\ isLegalStore(lp, b, x) \in kinds)
  IN [k \in 1 .. Len(sel) |-> sel[k].id]

\* The stores of one kind, one list per underlying object, the lists in the
\* order in which their first store appears in the block.
StoreRefs(lp, b, kind) ==
  LET all == StoresOfKind(lp, b, {kind})
      of(o) == SelectSeq(all, LAMBDA id : InstrById(b, id).obj = o)
      first == IF all = <<>> THEN "A" ELSE InstrById(b, all[1]).obj
      other == IF first = "A" THEN "B" ELSE "A"
  IN SelectSeq(<<of(first), of(other)>>, LAMBDA l : l # <<>>)

\* ------------------------------------------------------------------------
\* mayLoopAccessLocation, getStartForNegStride, getNumBytes
\* ------------------------------------------------------------------------

\* AliasAnalysis::getModRefInfo of an instruction of the loop against the
\* location [base, base + accessSize) of obj; accessSize < 0 is unknown.
\* A faulty variant: a load is taken not to touch the location.
getModRefInfoOfWrites(lp, I, obj, base, accessSize) ==
  LET overlap ==
        /\ I.obj = obj
        /\ \E i \in 0 .. lp.be :
              /\ base < I.start + i * I.stride + I.size
              /\ (accessSize < 0 \/ I.start + i * I.stride < base + accessSize)
  IN IF I.op \notin {"store", "memset"} THEN {}
     ELSE IF lp.aaPrecise /\ ~overlap THEN {}
     ELSE {"Mod"}

getModRefInfo(lp, I, obj, base, accessSize) ==
  LET overlap ==
        /\ I.obj = obj
        /\ \E i \in 0 .. lp.be :
              /\ base < I.start + i * I.stride + I.size
              /\ (accessSize < 0 \/ I.start + i * I.stride < base + accessSize)
  IN IF I.op \notin {"store", "load", "memset"} THEN {}
     ELSE IF lp.aaPrecise /\ ~overlap THEN {}
     ELSE IF I.op = "load" THEN {"Ref"} ELSE {"Mod"}

\* A faulty variant: only writes of the loop count as accesses.
mayLoopAccessLocationWritesOnly(lp, b, obj, base, storeSize, Access, IgnoredStores) ==
  \E k \in 1 .. Len(b) :
     /\ b[k].id \notin IgnoredStores
     /\ "Mod" \in getModRefInfo(lp, b[k], obj, base, 0 - 1)

mayLoopAccessLocation(lp, b, obj, base, storeSize, Access, IgnoredStores) ==
  LET AccessSize == IF lp.beConst THEN (lp.be + 1) * storeSize ELSE 0 - 1 IN
  \E k \in 1 .. Len(b) :
     /\ b[k].id \notin IgnoredStores
     /\ getModRefInfo(lp, b[k], obj, base, AccessSize) \cap Access # {}

\* A faulty variant: the index is not scaled by the store size.
getStartForNegStrideUnscaled(Start, lp, StoreSize) ==
  Start - (lp.be % Pow2(SizeBits))

getStartForNegStride(Start, lp, StoreSize) ==
  Start - (((lp.be % Pow2(SizeBits)) * StoreSize) % Pow2(SizeBits))

\* A faulty variant: one is always added in the type of the count.
BECountPlusOneInItsType(lp) == (lp.be + 1) % Pow2(lp.beBits)

\* BECount + 1 in the pointer-sized type: added before the zero extension
\* if the count's type is narrower and the loop entry is guarded by
\* BECount != -1, after it otherwise.
BECountPlusOne(lp) ==
  IF lp.beBits < SizeBits /\ lp.guarded
  THEN (lp.be + 1) % Pow2(lp.beBits)
  ELSE ((lp.be % Pow2(SizeBits)) + 1) % Pow2(SizeBits)

\* A faulty variant: the backedge-taken count is taken for the trip count.
getNumBytesOfBECount(lp, StoreSize) ==
  ((lp.be % Pow2(SizeBits)) * StoreSize) % Pow2(SizeBits)

getNumBytes(lp, StoreSize) == (BECountPlusOne(lp) * StoreSize) % Pow2(SizeBits)

avoidLIRForMultiBlockLoop(lp, IsMemset, IsLoopMemset) ==
  /\ lp.optSize
  /\ lp.numBlocks > 1
  /\ ~lp.nested
  /\ (~IsMemset \/ ~IsLoopMemset)

\* ------------------------------------------------------------------------
\* The history of rewrite attempts
\* ------------------------------------------------------------------------

\* Some instruction of the loop other than the ignored ones reads or writes
\* a byte of [lo, lo + len) of obj in some iteration.
TrulyAccessed(lp, b, obj, lo, len, ignored) ==
  \E k \in 1 .. Len(b) : \E i \in 0 .. lp.be :
     /\ b[k].id \notin ignored
     /\ b[k].op \in {"store", "load", "memset"}
     /\ b[k].obj = obj
     /\ lo < b[k].start + i * b[k].stride + b[k].size
     /\ b[k].start + i * b[k].stride < lo + len

\* The state an attempt works on, and what it leaves: `fired` says the
\* attempt returned true; the history entry keeps the block and the
\* preheader as the attempt found them.
Attempt(st, kind, stores, obj, lo, len, fired, b2, p2) ==
  [kind |-> kind, stores |-> stores, obj |-> obj, lo |-> lo, len |-> len,
   fired |-> fired, bodyBefore |-> st.body, preBefore |-> st.pre,
   bodyAfter |-> b2, preAfter |-> p2]

Finish(st, kind, stores, obj, lo, len, fired, b2, p2) ==
  [body |-> b2, pre |-> p2, changed |-> st.changed \/ fired,
   log |-> Append(st.log, Attempt(st, kind, stores, obj, lo, len, fired, b2, p2))]

\* ------------------------------------------------------------------------
\* processLoopStridedStore
\* ------------------------------------------------------------------------

\* What expanding the base address, and the byte count, puts into the
\* preheader.
ExpandBase(lp, what) == IF lp.startNeedsCode THEN <<ExpandI(what)>> ELSE <<>>

ExpandNumBytes(lp) == IF lp.beConst THEN <<>> ELSE <<ExpandI("NumBytes")>>

\* The memset or memset_pattern16 call for the head store's value.
FillCall(head, start, numBytes) ==
  IF isBytewiseValue(head.val, head.size).ok
  THEN MemSetCall(head.obj, start, numBytes, isBytewiseValue(head.val, head.size).byte)
  ELSE MemSetPatternCall(head.obj, start, numBytes,
                         PatternBytes(head.val, head.size))

processLoopStridedStore(st, lp, head, StoreSize, Stores, NegStride, IsLoopMemset) ==
  LET Start == IF NegStride THEN getStartForNegStride(head.start, lp, StoreSize)
               ELSE head.start
      kind == IF IsLoopMemset THEN "widen" ELSE "fill"
      len == (lp.be + 1) * StoreSize
      withBase == st.pre \o ExpandBase(lp, "BasePtr")
      NumBytes == getNumBytes(lp, StoreSize)
  IN
  IF ~lp.safeStart
    THEN Finish(st, kind, Stores, head.obj, Start, len, FALSE, st.body, st.pre)
  ELSE IF mayLoopAccessLocation(lp, st.body, head.obj, Start, StoreSize,
                                {"Mod", "Ref"}, Stores)
    THEN Finish(st, kind, Stores, head.obj, Start, len, FALSE, st.body, st.pre)
  ELSE IF avoidLIRForMultiBlockLoop(lp, TRUE, IsLoopMemset)
    THEN Finish(st, kind, Stores, head.obj, Start, len, FALSE, st.body, withBase)
  ELSE IF ~lp.safeNumBytes
    THEN Finish(st, kind, Stores, head.obj, Start, len, FALSE, st.body, withBase)
  ELSE Finish(st, kind, Stores, head.obj, Start, len, TRUE,
              deleteDeadInstruction(st.body, Stores),
              withBase \o ExpandNumBytes(lp) \o <<FillCall(head, Start, NumBytes)>>)

\* ------------------------------------------------------------------------
\* processLoopStores
\* ------------------------------------------------------------------------

\* The value two stores of a run must share: the splat byte for a memset,
\* the 16-byte pattern (with its element size) otherwise.
SharedValue(ins, ForMemset) ==
  IF ForMemset THEN <<isBytewiseValue(ins.val, ins.size).byte>>
  ELSE <<ins.size>> \o PatternBytes(ins.val, ins.size)

\* A faulty variant: the second store may lie anywhere above the first.
isConsecutiveAccessWithGap(A, B) == A.obj = B.obj /\ B.start >= A.start + A.size

isConsecutiveAccess(A, B) == A.obj = B.obj /\ B.start = A.start + A.size

\* Positions of SL searched for a store following SL[i]: i+1 .. e, then
\* i-1 down to 1.
IndexQueue(i, e) ==
  [q \in 1 .. e - 1 |-> IF q <= e - i THEN i + q ELSE i - (q - (e - i))]

\* SL[i] is a candidate on its own.
Isolated(b, SL, i) ==
  InstrById(b, SL[i]).size = Abs(InstrById(b, SL[i]).stride)

\* The store SL[i] is linked to: the first position of the index queue with
\* the same stride, consecutive to SL[i], and of a compatible value; 0 if
\* there is none.
Links(b, SL, ForMemset, i, k) ==
  LET first == InstrById(b, SL[i])
      second == InstrById(b, SL[k])
  IN /\ first.stride = second.stride
     /\ isConsecutiveAccess(first, second)
     /\ (IF first.val.k = "undef" THEN SharedValue(second, ForMemset)
         ELSE SharedValue(first, ForMemset)) = SharedValue(second, ForMemset)

ConsecutiveChain(b, SL, ForMemset, i) ==
  LET queue == IndexQueue(i, Len(SL))
      hits == {q \in 1 .. Len(queue) : Links(b, SL, ForMemset, i, queue[q])}
  IN IF Isolated(b, SL, i) \/ hits = {} THEN 0
     ELSE queue[CHOOSE q \in hits : \A r \in hits : q <= r]

Heads(b, SL, ForMemset) ==
  {i \in 1 .. Len(SL) : Isolated(b, SL, i) \/ ConsecutiveChain(b, SL, ForMemset, i) # 0}

Tails(b, SL, ForMemset) ==
  {ConsecutiveChain(b, SL, ForMemset, i) : i \in 1 .. Len(SL)} \ {0}

\* Follows the chain from position I, stopping at a transformed store.
RECURSIVE CollectChain(_, _, _, _, _, _)
CollectChain(b, SL, ForMemset, I, Transformed, acc) ==
  IF I = 0 \/ I \notin (Tails(b, SL, ForMemset) \cup Heads(b, SL, ForMemset))
     \/ I \in Transformed
  THEN acc
  ELSE CollectChain(b, SL, ForMemset, ConsecutiveChain(b, SL, ForMemset, I),
                    Transformed,
                    [stores |-> acc.stores \cup {I},
                     size |-> acc.size + InstrById(b, SL[I]).size])

\* The loop over Heads, from position i on; b is the block as it was when
\* processLoopStores was called.
RECURSIVE ProcessHeads(_, _, _, _, _, _, _)
ProcessHeads(st, lp, b, SL, ForMemset, i, Transformed) ==
  IF i > Len(SL) THEN st
  ELSE IF i \notin Heads(b, SL, ForMemset) \/ i \in Tails(b, SL, ForMemset)
       THEN ProcessHeads(st, lp, b, SL, ForMemset, i + 1, Transformed)
  ELSE LET chain == CollectChain(b, SL, ForMemset, i, Transformed,
                                 [stores |-> {}, size |-> 0])
           HeadStore == InstrById(b, SL[i])
           ids == {SL[k] : k \in chain.stores}
           res == processLoopStridedStore(st, lp, HeadStore, chain.size, ids,
                                          chain.size = 0 - HeadStore.stride, FALSE)
       IN IF chain.size # Abs(HeadStore.stride)
          THEN ProcessHeads(st, lp, b, SL, ForMemset, i + 1, Transformed)
          ELSE ProcessHeads(res, lp, b, SL, ForMemset, i + 1,
                            IF res.log[Len(res.log)].fired
                            THEN Transformed \cup chain.stores ELSE Transformed)

processLoopStores(st, lp, SL, ForMemset) ==
  ProcessHeads(st, lp, st.body, SL, ForMemset, 1, {})

\* ------------------------------------------------------------------------
\* processLoopStoreOfLoopLoad
\* ------------------------------------------------------------------------

\* A faulty variant: only the store's alignment is looked at.
CopyAlignOfStore(SI, LI) == SI.align

\* The alignment an element-wise atomic copy can rely on.
CopyAlign(SI, LI) == Min(SI.align, LI.align)

processLoopStoreOfLoopLoad(st, lp, id) ==
  LET SI == InstrById(st.body, id)
      LI == InstrById(st.body, SI.val.of)
      StoreSize == SI.size
      NegStride == StoreSize = 0 - SI.stride
      StrStart == IF NegStride THEN getStartForNegStride(SI.start, lp, StoreSize)
                  ELSE SI.start
      LdStart == IF NegStride THEN getStartForNegStride(LI.start, lp, StoreSize)
                 ELSE LI.start
      len == (lp.be + 1) * StoreSize
      withStore == st.pre \o ExpandBase(lp, "StoreBasePtr")
      withLoad == withStore \o ExpandBase(lp, "LoadBasePtr")
      withBytes == withLoad \o ExpandNumBytes(lp)
      NumBytes == getNumBytes(lp, StoreSize)
      Align == CopyAlign(SI, LI)
      atomic == SI.atomic \/ LI.atomic
  IN
  IF mayLoopAccessLocation(lp, st.body, SI.obj, StrStart, StoreSize,
                           {"Mod", "Ref"}, {id})
    THEN Finish(st, "copy", {id}, SI.obj, StrStart, len, FALSE, st.body, st.pre)
  ELSE IF mayLoopAccessLocation(lp, st.body, LI.obj, LdStart, StoreSize,
                                {"Mod"}, {id})
    THEN Finish(st, "copy", {id}, SI.obj, StrStart, len, FALSE, st.body, st.pre)
  ELSE IF avoidLIRForMultiBlockLoop(lp, FALSE, FALSE)
    THEN Finish(st, "copy", {id}, SI.obj, StrStart, len, FALSE, st.body, withLoad)
  ELSE IF atomic /\ Align < StoreSize
    THEN Finish(st, "copy", {id}, SI.obj, StrStart, len, FALSE, st.body, withBytes)
  ELSE IF atomic /\ StoreSize > lp.atomicMax
    THEN Finish(st, "copy", {id}, SI.obj, StrStart, len, FALSE, st.body, withBytes)
  ELSE Finish(st, "copy", {id}, SI.obj, StrStart, len, TRUE,
              deleteDeadInstruction(st.body, {id}),
              withBytes \o <<MemCpyCall(SI.obj, StrStart, LI.obj, LdStart,
                                        NumBytes, atomic)>>)

\* ------------------------------------------------------------------------
\* processLoopMemSet and the scan for memsets of runOnLoopBlock
\* ------------------------------------------------------------------------

processLoopMemSet(st, lp, id) ==
  LET MSI == InstrById(st.body, id) IN
  IF MSI.volatile THEN st
  ELSE IF ~lp.hasMemset THEN st
  ELSE IF MSI.stride = 0 THEN st
  ELSE IF MSI.size # Abs(MSI.stride) THEN st
  ELSE IF ~(MSI.val.k = "const") THEN st
  ELSE processLoopStridedStore(st, lp, MSI, MSI.size, {id},
                               MSI.size = 0 - MSI.stride, TRUE)

\* The trace of one scan: the instructions visited in order, the number of
\* restarts at the block's first instruction, whether an instruction that
\* was no longer in the block was visited, whether the scan was cut off
\* after ScanFuel(b) visits, whether it reached the end of the block.
NoScan ==
  [visited |-> <<>>, restarts |-> 0, dead |-> FALSE, exhausted |-> FALSE,
   finished |-> FALSE]

\* BB->begin(): the first instruction of the block; 0 stands for the
\* block's terminator, where the scan ends.
BlockBegin(b) == IF b = <<>> THEN 0 ELSE b[1].id

PosOf(b, id) == CHOOSE k \in 1 .. Len(b) : b[k].id = id

\* A faulty variant: the iterator is left on the visited instruction.
IteratorNotAdvanced(b, id) == id

\* I++ : the instruction after the one the iterator stands on.
IteratorAfter(b, id) == IF PosOf(b, id) = Len(b) THEN 0 ELSE b[PosOf(b, id) + 1].id

\* processLoopMemSet returned true.
MemSetWidened(st, res) ==
  /\ Len(res.log) > Len(st.log)
  /\ res.log[Len(res.log)].fired

\* The visits after which the model stops following a scan.
ScanFuel(b) == (Len(b) + 1) * (Len(b) + 1)

\* The loop over the instructions of the block in runOnLoopBlock: the
\* iterator is advanced before the memset is processed, a weak handle
\* watches the instruction it then stands on, and after a successful
\* widening the scan restarts when that instruction is gone.
RECURSIVE ScanBlock(_, _, _, _, _)
ScanBlock(st, lp, I, tr, fuel) ==
  IF I = 0 THEN [st |-> st, tr |-> [tr EXCEPT !.finished = TRUE]]
  ELSE IF fuel = 0 THEN [st |-> st, tr |-> [tr EXCEPT !.exhausted = TRUE]]
  ELSE IF I \notin Ids(st.body) THEN [st |-> st, tr |-> [tr EXCEPT !.dead = TRUE]]
  ELSE
    LET Inst == InstrById(st.body, I)
        Nxt == IteratorAfter(st.body, I)
        tr1 == [tr EXCEPT !.visited = Append(@, I)]
        res == processLoopMemSet(st, lp, I)
    IN IF Inst.op # "memset" THEN ScanBlock(st, lp, Nxt, tr1, fuel - 1)
       ELSE IF ~MemSetWidened(st, res) THEN ScanBlock(res, lp, Nxt, tr1, fuel - 1)
       ELSE IF Nxt # 0 /\ Nxt \notin Ids(res.body)
         THEN ScanBlock(res, lp, BlockBegin(res.body),
                        [tr1 EXCEPT !.restarts = @ + 1], fuel - 1)
       ELSE ScanBlock(res, lp, Nxt, tr1, fuel - 1)

\* ------------------------------------------------------------------------
\* runOnCountableLoop, runOnLoopBlock
\* ------------------------------------------------------------------------

\* The working state the process* operators pass along.
Work == [body |-> body, pre |-> pre, changed |-> madeChange, log |-> attempts]

\* The variables take the working state an operator returns.
Commit(st) ==
  /\ body' = st.body
  /\ pre' = st.pre
  /\ madeChange' = st.changed
  /\ attempts' = st.log

\* A faulty variant: only blocks of subloops are passed over.
BlockIsSkippedInSubLoop(lp) == lp.inSubLoop

\* The block is not scanned: it belongs to a subloop, or it does not
\* dominate every exit block of the loop.
BlockIsSkipped(lp) == lp.inSubLoop \/ ~lp.dominates

\* runOnCountableLoop up to collectStores of runOnLoopBlock: a loop that
\* runs once, may throw, or whose block does not dominate every exit is
\* left alone.
FRunOnCountableLoop ==
  /\ pcF = "start"
  /\ IF (fLoop.beConst /\ fLoop.be = 0) \/ fLoop.mayThrow \/ BlockIsSkipped(fLoop)
     THEN /\ pcF' = "done"
          /\ UNCHANGED <<qMemset, qPattern, qCopy>>
     ELSE /\ qMemset' = StoreRefs(fLoop, body, "Memset")
          /\ qPattern' = StoreRefs(fLoop, body, "MemsetPattern")
          /\ qCopy' = StoresOfKind(fLoop, body, {"Memcpy", "UnorderedAtomicMemcpy"})
          /\ pcF' = "stores"
  /\ UNCHANGED <<fLoop, body, pre, attempts, madeChange, scan>>
  /\ UNCHANGED notF

\* processLoopStores(SL, BECount, ForMemset::Yes) for the next base.
FMemsetStores ==
  /\ pcF = "stores"
  /\ qMemset # <<>>
  /\ Commit(processLoopStores(Work, fLoop, Head(qMemset), TRUE))
  /\ qMemset' = Tail(qMemset)
  /\ UNCHANGED <<fLoop, qPattern, qCopy, pcF, scan>>
  /\ UNCHANGED notF

\* processLoopStores(SL, BECount, ForMemset::No) for the next base.
FPatternStores ==
  /\ pcF = "stores"
  /\ qMemset = <<>>
  /\ qPattern # <<>>
  /\ Commit(processLoopStores(Work, fLoop, Head(qPattern), FALSE))
  /\ qPattern' = Tail(qPattern)
  /\ UNCHANGED <<fLoop, qMemset, qCopy, pcF, scan>>
  /\ UNCHANGED notF

\* processLoopStoreOfLoopLoad for the next store of a loaded value.
FCopyStore ==
  /\ pcF = "stores"
  /\ qMemset = <<>>
  /\ qPattern = <<>>
  /\ qCopy # <<>>
  /\ Commit(processLoopStoreOfLoopLoad(Work, fLoop, Head(qCopy)))
  /\ qCopy' = Tail(qCopy)
  /\ UNCHANGED <<fLoop, qMemset, qPattern, pcF, scan>>
  /\ UNCHANGED notF

\* The scan of the block for memsets, which ends runOnLoopBlock.
FMemSetScan ==
  /\ pcF = "stores"
  /\ qMemset = <<>>
  /\ qPattern = <<>>
  /\ qCopy = <<>>
  /\ LET r == ScanBlock(Work, fLoop, BlockBegin(body), NoScan, ScanFuel(body))
     IN /\ Commit(r.st)
        /\ scan' = r.tr
  /\ pcF' = "done"
  /\ UNCHANGED <<fLoop, qMemset, qPattern, qCopy>>
  /\ UNCHANGED notF

\* ========================================================================
\* Noncountable idioms: popcount and find-first-set (ctlz / cttz)
\* ========================================================================

\* Bit width of the value x whose bits the loop consumes: a loop over it
\* runs at most MaxBE + 1 iterations.
XBits == MaxBE + 1

\* Bit widths of the counter: narrower than x, as wide, wider.
CntWidths == {XBits - 1, XBits, XBits + 1}

\* ------------------------------------------------------------------------
\* Bit arithmetic
\* ------------------------------------------------------------------------

RECURSIVE PopCount(_)
PopCount(v) == IF v = 0 THEN 0 ELSE (v % 2) + PopCount(v \div 2)

\* Number of bits up to and including the highest set bit.
RECURSIVE BitLen(_)
BitLen(v) == IF v = 0 THEN 0 ELSE 1 + BitLen(v \div 2)

RECURSIVE TrailingZeros(_)
TrailingZeros(v) == IF v % 2 = 1 THEN 0 ELSE 1 + TrailingZeros(v \div 2)

RECURSIVE AndBits(_, _)
AndBits(a, b) ==
  IF a = 0 \/ b = 0 THEN 0
  ELSE (a % 2) * (b % 2) + 2 * AndBits(a \div 2, b \div 2)

Signed(v, bits) == IF v >= Pow2(bits - 1) THEN v - Pow2(bits) ELSE v

\* The result of an intrinsic on an input for which it is undefined.
UndefInt == 0 - 1

\* ------------------------------------------------------------------------
\* Values the rewrite builds, and their evaluation
\* ------------------------------------------------------------------------

\* A value: an argument or instruction of the function named by `op`, a
\* constant, or an instruction the rewrite creates from other values.
Leaf(name, bits) ==
  [op |-> name, bits |-> bits, k |-> 0, zu |-> FALSE, args |-> <<>>]

ConstantInt(k, bits) ==
  [op |-> "const", bits |-> bits, k |-> k, zu |-> FALSE, args |-> <<>>]

Node(op, bits, args) ==
  [op |-> op, bits |-> bits, k |-> 0, zu |-> FALSE, args |-> args]

Null == Leaf("null", 0)

isZero(e) == e.op = "const" /\ e.k = 0

CreateZExtOrTrunc(V, bits) ==
  IF V.bits = bits THEN V ELSE Node("zext_or_trunc", bits, <<V>>)

createPopcntIntrinsic(Val) == Node("ctpop", Val.bits, <<Val>>)

\* A faulty variant: the intrinsic is always undefined on zero.
createFFSIntrinsicZeroUndef(Val, ZeroCheck, IID) ==
  [Node(IID, Val.bits, <<Val>>) EXCEPT !.zu = TRUE]

\* ZeroCheck is the intrinsic's is_zero_undef argument.
createFFSIntrinsic(Val, ZeroCheck, IID) ==
  [Node(IID, Val.bits, <<Val>>) EXCEPT !.zu = ZeroCheck]

\* The value of e when the function runs with seed lp.x0 and initial
\* counter lp.cnt0.
RECURSIVE Eval(_, _)
Eval(e, lp) ==
  LET m == Pow2(e.bits)
      a == Eval(e.args[1], lp)
      b == Eval(e.args[2], lp)
  IN
  IF \E i \in 1 .. Len(e.args) : Eval(e.args[i], lp) = UndefInt THEN UndefInt
  ELSE CASE e.op = "x0" -> lp.x0
         [] e.op = "cnt0" -> lp.cnt0
         [] e.op = "const" -> e.k % m
         [] e.op = "ctpop" -> PopCount(a)
         [] e.op = "ctlz" -> IF a = 0 /\ e.zu THEN UndefInt ELSE e.bits - BitLen(a)
         [] e.op = "cttz" -> IF a = 0 THEN (IF e.zu THEN UndefInt ELSE e.bits)
                             ELSE TrailingZeros(a)
         [] e.op = "zext_or_trunc" -> a % m
         [] e.op = "add" -> (a + b) % m
         [] e.op = "sub" -> (a - b) % m
         [] e.op = "LShr" -> a \div Pow2(b)
         [] e.op = "AShr" -> (Signed(a, e.bits) \div Pow2(b)) % m
         [] e.op = "Shl" -> (a * Pow2(b)) % m
         [] OTHER -> 0

\* ------------------------------------------------------------------------
\* The loops handed to the matchers
\* ------------------------------------------------------------------------

\* An instruction of the loop block: opcode and operands by name.
Inst(opcode, ops) == [opcode |-> opcode, ops |-> ops]

NoInst == Inst("none", <<>>)

\* x.next of each kind of loop.
DefXOf(kind) ==
  CASE kind = "and_sub" -> Inst("And", <<"SubOneOp", "PhiX">>)
    [] kind = "and_add" -> Inst("And", <<"PhiX", "SubOneOp">>)
    [] kind = "lshr" -> Inst("LShr", <<"PhiX", "1">>)
    [] kind = "ashr" -> Inst("AShr", <<"PhiX", "1">>)
    [] OTHER -> Inst("Shl", <<"PhiX", "1">>)

\* The single-block loop
\*    PhiX = phi [x0, DefX];  CntPhi = phi [CntInitVal, CntInst]
\*    CntInst = CntPhi + 1;   DefX = PhiX & (PhiX - 1)  or  PhiX shifted by 1
\*    br (DefX != 0), Body, Exit      (or: br (DefX == 0), Exit, Body)
\* below a precondition block that enters the preheader iff x0 != 0.
\*   init       the counter starts at constant 0, or at an argument cnt0
\*   use        which of CntInst, CntPhi is used outside the loop
\*   guard      the precondition: "ne", "eq" (branch polarity), or "none"
IdiomLoop(kind, x0, init, cw, loopFirst, use, guard) ==
  [x0 |-> x0, xBits |-> XBits, cntBits |-> cw,
   cnt0 |-> CASE init = "zero" -> 0 [] init = "one" -> 1 [] OTHER -> Pow2(cw) - 1,
   CntInitVal |-> IF init = "zero" THEN ConstantInt(0, cw) ELSE Leaf("cnt0", cw),
   insts |-> [PhiX |-> Inst("PHI", <<"x0", "DefX">>),
              CntPhi |-> Inst("PHI", <<"cnt0", "CntInst">>),
              CntInst |-> Inst("Add", <<"CntPhi", "1">>),
              SubOneOp |-> CASE kind = "and_sub" -> Inst("Sub", <<"PhiX", "1">>)
                             [] kind = "and_add" -> Inst("Add", <<"PhiX", "-1">>)
                             [] OTHER -> NoInst,
              DefX |-> DefXOf(kind)],
   LbBr |-> [exists |-> TRUE, conditional |-> TRUE,
             succ |-> IF loopFirst THEN <<"Body", "Exit">> ELSE <<"Exit", "Body">>],
   LbCond |-> [pred |-> IF loopFirst THEN "NE" ELSE "EQ",
               op0 |-> Leaf("DefX", XBits), op1 |-> ConstantInt(0, XBits)],
   PreCondBr |-> [exists |-> guard # "none", conditional |-> TRUE,
                  succ |-> IF guard = "eq" THEN <<"Else", "PH">> ELSE <<"PH", "Else">>],
   PreCond |-> [pred |-> IF guard = "eq" THEN "EQ" ELSE "NE",
                op0 |-> Leaf("x0", XBits), op1 |-> ConstantInt(0, XBits)],
   cntInstOut |-> use \in {"inst", "both"}, cntPhiOut |-> use \in {"phi", "both"},
   numBlocks |-> 1, numBackEdges |-> 1, bodySize |-> IdiomCanonicalSize,
   headerSize |-> IdiomCanonicalSize, phOnlyBr |-> TRUE,
   popcntFast |-> TRUE, ffsCost |-> "TCC_Basic",
   knownNonNeg |-> x0 < Pow2(XBits - 1)]

IdiomKinds == {"and_sub", "and_add", "lshr", "ashr", "shl"}

GoodIdiomLoops ==
  { IdiomLoop(kind, x0, init, cw, lf, use, guard) :
      kind \in IdiomKinds, x0 \in 0 .. Pow2(XBits) - 1,
      init \in {"zero", "max"}, cw \in CntWidths, lf \in BOOLEAN,
      use \in {"inst", "phi", "both", "none"}, guard \in {"ne", "eq", "none"} }

BasePopcountLoop == IdiomLoop("and_sub", Pow2(XBits) - 1, "one", XBits, TRUE, "inst", "ne")

BaseFFSLoop == IdiomLoop("lshr", Pow2(XBits) - 1, "one", XBits, TRUE, "inst", "ne")

\* Loops that differ from an accepted one in a single respect.
OddIdiomLoopsOf(lp) ==
  { [lp EXCEPT !.numBlocks = 2],
    [lp EXCEPT !.numBackEdges = 2],
    [lp EXCEPT !.bodySize = PopcountBodyLimit],
    [lp EXCEPT !.bodySize = PopcountBodyLimit - 1, !.headerSize = PopcountBodyLimit - 1],
    [lp EXCEPT !.phOnlyBr = FALSE],
    [lp EXCEPT !.popcntFast = FALSE],
    [lp EXCEPT !.PreCondBr.conditional = FALSE],
    [lp EXCEPT !.PreCond.op0 = Leaf("y", XBits)],
    [lp EXCEPT !.PreCond.op1 = ConstantInt(1, XBits)],
    [lp EXCEPT !.PreCond.pred = "EQ"],
    [lp EXCEPT !.LbCond.pred = "EQ"],
    [lp EXCEPT !.LbCond.pred = "UGT"],
    [lp EXCEPT !.LbCond.op1 = ConstantInt(1, XBits)],
    [lp EXCEPT !.insts.SubOneOp.ops = <<"PhiX", "2">>],
    [lp EXCEPT !.insts.DefX.ops = <<"PhiX", "2">>],
    [lp EXCEPT !.insts.PhiX.ops = <<"x0", "other">>],
    [lp EXCEPT !.insts.CntInst.ops = <<"CntPhi", "2">>],
    [lp EXCEPT !.insts.CntInst.opcode = "Sub"],
    [lp EXCEPT !.insts.CntPhi.ops = <<"cnt0", "other">>],
    [lp EXCEPT !.headerSize = IdiomCanonicalSize + 1, !.ffsCost = "TCC_Expensive"],
    [lp EXCEPT !.headerSize = IdiomCanonicalSize + 1],
    [lp EXCEPT !.ffsCost = "TCC_Expensive"],
    [lp EXCEPT !.headerSize = IdiomCanonicalSize + 1, !.ffsCost = "TCC_Free"],
    [lp EXCEPT !.headerSize = IdiomCanonicalSize - 1, !.ffsCost = "TCC_Expensive"],
    [lp EXCEPT !.knownNonNeg = FALSE] }

OddIdiomLoops ==
  UNION { OddIdiomLoopsOf(IdiomLoop(kind, x0, "one", XBits, TRUE, "inst", "ne")) :
            kind \in {"and_sub", "lshr", "ashr"}, x0 \in {1, Pow2(XBits - 1) - 1} }

\* ------------------------------------------------------------------------
\* Running the loop
\* ------------------------------------------------------------------------

ConstOf(name) ==
  CASE name = "1" -> 1 [] name = "-1" -> 0 - 1 [] name = "2" -> 2 [] OTHER -> 0

\* The value DefX computes from the value x of PhiX.
ApplyDefX(lp, x) ==
  LET m == Pow2(lp.xBits)
      D == lp.insts.DefX
      S == lp.insts.SubOneOp
      sub == IF S.opcode = "Sub" THEN (x - ConstOf(S.ops[2])) % m
             ELSE (x + ConstOf(S.ops[2])) % m
      by == ConstOf(D.ops[2])
  IN CASE D.opcode = "And" -> AndBits(x, sub)
       [] D.opcode = "LShr" -> x \div Pow2(by)
       [] D.opcode = "AShr" -> (Signed(x, lp.xBits) \div Pow2(by)) % m
       [] D.opcode = "Shl" -> (x * Pow2(by)) % m
       [] OTHER -> x

ApplyCntInst(lp, c) ==
  LET I == lp.insts.CntInst IN
  IF I.opcode = "Add" THEN (c + ConstOf(I.ops[2])) % Pow2(lp.cntBits)
  ELSE (c - ConstOf(I.ops[2])) % Pow2(lp.cntBits)

CmpHolds(pred, a, b, bits) ==
  CASE pred = "NE" -> a # b
    [] pred = "EQ" -> a = b
    [] pred = "UGT" -> a > b
    [] pred = "SLE" -> Signed(a, bits) <= Signed(b, bits)
    [] OTHER -> FALSE

\* A conditional branch goes to its first successor iff its condition holds.
Taken(BI, c) == BI.succ[IF c THEN 1 ELSE 2]

\* The precondition block enters the preheader.
Entered(lp, PreC) ==
  IF ~lp.PreCondBr.exists \/ ~lp.PreCondBr.conditional THEN TRUE
  ELSE Taken(lp.PreCondBr,
             CmpHolds(PreC.pred, Eval(PreC.op0, lp), Eval(PreC.op1, lp), PreC.op0.bits)) = "PH"

\* No loop of the model runs longer; a run this long is cut off as stuck.
IterFuel == Pow2(XBits + 1) + 2

\* The loop from its n-th iteration on, entered with x in PhiX, c in CntPhi
\* and t in the trip counter: the values of CntInst and CntPhi at the exit,
\* the iterations run, and the trip counter's values at the start of each.
RECURSIVE Iterate(_, _, _, _, _, _, _, _)
Iterate(lp, LbC, Tc, x, c, t, n, seen) ==
  LET x2 == ApplyDefX(lp, x)
      c2 == ApplyCntInst(lp, c)
      dec == IF Tc.exists THEN (t - 1) % Pow2(Tc.bits) ELSE 0
      lhs == IF LbC.op0.op = "TcDec" THEN dec ELSE x2
      stay == Taken(lp.LbBr, CmpHolds(LbC.pred, lhs, Eval(LbC.op1, lp), LbC.op0.bits)) = "Body"
  IN IF ~stay \/ n >= IterFuel
     THEN [CntInst |-> c2, CntPhi |-> c, iters |-> n, stuck |-> stay,
           tc |-> Append(seen, t)]
     ELSE Iterate(lp, LbC, Tc, x2, c2, dec, n + 1, Append(seen, t))

NotRun == [CntInst |-> UndefInt, CntPhi |-> UndefInt, iters |-> 0, stuck |-> FALSE, tc |-> <<>>]

NoTcPhi == [exists |-> FALSE, init |-> Null, bits |-> 0]

NoneReplaced == [inst |-> FALSE, phi |-> FALSE, by |-> Null]

\* What the code after the loop sees: whether the loop was entered, and the
\* values its uses of CntInst and of CntPhi read.
Outcome(lp, LbC, PreC, Tc, repl) ==
  LET run == IF Entered(lp, PreC)
             THEN Iterate(lp, LbC, Tc, lp.x0, lp.cnt0,
                          IF Tc.exists THEN Eval(Tc.init, lp) ELSE 0, 1, <<>>)
             ELSE NotRun
  IN [entered |-> Entered(lp, PreC),
      CntInst |-> IF Entered(lp, PreC) /\ repl.inst THEN Eval(repl.by, lp) ELSE run.CntInst,
      CntPhi |-> IF Entered(lp, PreC) /\ repl.phi THEN Eval(repl.by, lp) ELSE run.CntPhi,
      iters |-> run.iters, stuck |-> run.stuck, tc |-> run.tc]

OriginalOutcome(lp) == Outcome(lp, lp.LbCond, lp.PreCond, NoTcPhi, NoneReplaced)

\* ------------------------------------------------------------------------
\* matchCondition, getRecurrenceVar
\* ------------------------------------------------------------------------

\* The variable a conditional branch compares with zero so that control
\* reaches LoopEntry iff the variable is not zero; Null otherwise.
matchCondition(BI, Cond, LoopEntry) ==
  IF ~BI.exists \/ ~BI.conditional THEN Null
  ELSE IF ~isZero(Cond.op1) THEN Null
  ELSE IF \/ Cond.pred = "NE" /\ BI.succ[1] = LoopEntry
          \/ Cond.pred = "EQ" /\ BI.succ[2] = LoopEntry
       THEN Cond.op0
  ELSE Null

\* dyn_cast<Instruction>: the instruction of the loop block a name stands
\* for; the trip counter's decrement once a rewrite has put it there.
InstOf(lp, name) ==
  IF name \in DOMAIN lp.insts THEN lp.insts[name]
  ELSE IF name = "TcDec" THEN Inst("Sub", <<"TcPhi", "1">>)
  ELSE IF name = "TcPhi" THEN Inst("PHI", <<"TripCnt", "TcDec">>)
  ELSE NoInst

IsBinaryOperator(I) == I.opcode \in {"And", "Add", "Sub", "LShr", "AShr", "Shl"}

isShift(I) == I.opcode \in {"LShr", "AShr", "Shl"}

getRecurrenceVar(lp, VarX, DefX) ==
  IF InstOf(lp, VarX).opcode = "PHI" /\
     (InstOf(lp, VarX).ops[1] = DefX \/ InstOf(lp, VarX).ops[2] = DefX)
  THEN VarX ELSE "null"

\* A use outside the loop block that still reads the instruction.
UsedOutside(lp, repl, name) ==
  CASE name = "CntInst" -> lp.cntInstOut /\ ~repl.inst
    [] name = "CntPhi" -> lp.cntPhiOut /\ ~repl.phi
    [] OTHER -> FALSE

\* The non-PHI instructions of the loop block, in order.
BodyOrder(Tc) ==
  IF Tc.exists THEN <<"CntInst", "SubOneOp", "DefX", "TcDec">>
  ELSE <<"CntInst", "SubOneOp", "DefX">>

\* "cnt2 = cnt1 + 1": the first add of one to a recurrence; for popcount
\* it must also be live out of the loop.
CountInsts(lp, Tc, repl, liveOut) ==
  SelectSeq(BodyOrder(Tc),
            LAMBDA n : /\ InstOf(lp, n).opcode = "Add"
                       /\ InstOf(lp, n).ops[2] = "1"
                       /\ getRecurrenceVar(lp, InstOf(lp, n).ops[1], n) # "null"
                       /\ (liveOut => UsedOutside(lp, repl, n)))

\* ------------------------------------------------------------------------
\* detectPopcountIdiom, transformLoopToPopcount, recognizePopcount
\* ------------------------------------------------------------------------

NotDetected == [ok |-> FALSE]

detectPopcountIdiom(lp, st) ==
  LET T == matchCondition(lp.LbBr, st.LbCond, "Body")
      DefX2 == InstOf(lp, T.op)
      first == IsBinaryOperator(InstOf(lp, DefX2.ops[1]))
      VarX1 == IF first THEN DefX2.ops[2] ELSE DefX2.ops[1]
      SubOneOp == InstOf(lp, IF first THEN DefX2.ops[1] ELSE DefX2.ops[2])
      PhiX == getRecurrenceVar(lp, VarX1, T.op)
      found == CountInsts(lp, st.TcPhi, st.replaced, TRUE)
      Var == matchCondition(lp.PreCondBr, st.PreCond, "PH")
  IN
  IF T = Null THEN NotDetected
  ELSE IF DefX2.opcode # "And" THEN NotDetected
  ELSE IF ~IsBinaryOperator(SubOneOp) \/ SubOneOp.ops[1] # VarX1 THEN NotDetected
  ELSE IF ~(\/ SubOneOp.opcode = "Sub" /\ SubOneOp.ops[2] = "1"
            \/ SubOneOp.opcode = "Add" /\ SubOneOp.ops[2] = "-1") THEN NotDetected
  ELSE IF PhiX = "null" THEN NotDetected
  ELSE IF found = <<>> THEN NotDetected
  ELSE IF Var.op # InstOf(lp, PhiX).ops[1] /\ Var.op # InstOf(lp, PhiX).ops[2]
       THEN NotDetected
  ELSE [ok |-> TRUE, CntInst |-> found[1],
        CntPhi |-> InstOf(lp, found[1]).ops[1], Var |-> Var]

\* A faulty variant: SE keeps what it had cached of the loop.
forgetLoopSkipped(st) == st.forgotten

\* SE->forgetLoop(CurLoop), the last step of both rewrites: whether SE has
\* forgotten the loop afterwards.
forgetLoop(st) == TRUE

\* A faulty variant: the counter's initial value is left out.
PopcountNewCountWithoutInit(lp, PopCntZext) == PopCntZext

\* The counter as the rewrite computes it: the (extended or truncated)
\* population count, plus the counter's initial value unless that is the
\* constant zero.
PopcountNewCount(lp, PopCntZext) ==
  IF isZero(lp.CntInitVal) THEN PopCntZext
  ELSE Node("add", lp.cntBits, <<PopCntZext, lp.CntInitVal>>)

\* The predicate the loop-back branch gets on the decremented trip counter.
PopcountLatchPred(lp) == IF lp.LbBr.succ[1] = "Body" THEN "UGT" ELSE "SLE"

transformLoopToPopcount(lp, st, Var) ==
  LET PopCnt == createPopcntIntrinsic(Var)
      PopCntZext == CreateZExtOrTrunc(PopCnt, lp.cntBits)
      TripCnt == PopCntZext
      NewCount == PopcountNewCount(lp, PopCntZext)
      Zero == ConstantInt(0, PopCntZext.bits)
      swap == st.PreCond.op0 # Var
      NewPreCond == [pred |-> st.PreCond.pred,
                     op0 |-> IF swap THEN Zero ELSE PopCntZext,
                     op1 |-> IF swap THEN PopCntZext ELSE Zero]
  IN [LbCond |-> [pred |-> PopcountLatchPred(lp),
                  op0 |-> Leaf("TcDec", TripCnt.bits),
                  op1 |-> ConstantInt(0, TripCnt.bits)],
      PreCond |-> NewPreCond,
      TcPhi |-> [exists |-> TRUE, init |-> TripCnt, bits |-> TripCnt.bits],
      newInsts |-> st.newInsts \o <<PopCnt>> \o
                   (IF PopCntZext # PopCnt THEN <<PopCntZext>> ELSE <<>>) \o
                   (IF NewCount # PopCntZext THEN <<NewCount>> ELSE <<>>),
      replaced |-> [inst |-> TRUE, phi |-> st.replaced.phi, by |-> NewCount],
      forgotten |-> forgetLoop(st),
      matched |-> "popcount",
      ret |-> TRUE]

\* recognizePopcount: the state it leaves (`ret` is what it returns).
recognizePopcount(lp, st) ==
  LET d == detectPopcountIdiom(lp, st) IN
  IF ~lp.popcntFast THEN st
  ELSE IF lp.numBackEdges # 1 \/ lp.numBlocks # 1 THEN st
  ELSE IF lp.bodySize >= PopcountBodyLimit THEN st
  ELSE IF ~lp.phOnlyBr THEN st
  ELSE IF ~lp.PreCondBr.exists THEN st
  ELSE IF ~lp.PreCondBr.conditional THEN st
  ELSE IF ~d.ok THEN st
  ELSE transformLoopToPopcount(lp, st, d.Var)

\* ------------------------------------------------------------------------
\* detectShiftUntilZeroIdiom, transformLoopToCountable, recognizeAndInsertFFS
\* ------------------------------------------------------------------------

detectShiftUntilZeroIdiom(lp, st) ==
  LET T == matchCondition(lp.LbBr, st.LbCond, "Body")
      DefX == InstOf(lp, T.op)
      PhiX == getRecurrenceVar(lp, DefX.ops[1], T.op)
      found == CountInsts(lp, st.TcPhi, st.replaced, FALSE)
  IN
  IF T = Null THEN NotDetected
  ELSE IF ~isShift(DefX) THEN NotDetected
  ELSE IF DefX.ops[2] # "1" THEN NotDetected
  ELSE IF PhiX = "null" THEN NotDetected
  ELSE IF DefX.opcode = "AShr" /\ ~lp.knownNonNeg THEN NotDetected
  ELSE IF found = <<>> THEN NotDetected
  ELSE [ok |-> TRUE, IntrinID |-> IF DefX.opcode = "Shl" THEN "cttz" ELSE "ctlz",
        InitX |-> Leaf(InstOf(lp, PhiX).ops[1], lp.xBits),
        CntInst |-> found[1], CntPhi |-> InstOf(lp, found[1]).ops[1],
        DefX |-> DefX]

\* A faulty variant: x0 is never advanced.
FFSInitXNextNotShifted(InitX, DefX, IsCntPhiUsedOutsideLoop) == InitX

\* The value whose leading or trailing zeros are counted: x0 itself, or x0
\* advanced by one shift when the uses outside the loop read CntPhi.
FFSInitXNext(InitX, DefX, IsCntPhiUsedOutsideLoop) ==
  IF IsCntPhiUsedOutsideLoop
  THEN Node(DefX.opcode, InitX.bits, <<InitX, ConstantInt(1, InitX.bits)>>)
  ELSE InitX

\* A faulty variant: the loop-back branch keeps testing the shifted value.
FFSLatchCondKept(lp, st, Count) == st.LbCond

\* The loop-back condition after the rewrite: the decremented trip
\* counter against zero, with the polarity of the branch.
FFSLatchCond(lp, st, Count) ==
  [pred |-> IF lp.LbBr.succ[1] = "Body" THEN "NE" ELSE "EQ",
   op0 |-> Leaf("TcDec", Count.bits),
   op1 |-> ConstantInt(0, Count.bits)]

transformLoopToCountable(lp, st, IntrinID, InitX, DefX, ZeroCheck, IsCntPhiUsedOutsideLoop) ==
  LET InitXNext == FFSInitXNext(InitX, DefX, IsCntPhiUsedOutsideLoop)
      FFS == createFFSIntrinsic(InitXNext, ZeroCheck, IntrinID)
      CountPrev == Node("sub", FFS.bits, <<ConstantInt(FFS.bits, FFS.bits), FFS>>)
      Count == IF IsCntPhiUsedOutsideLoop
               THEN Node("add", FFS.bits, <<CountPrev, ConstantInt(1, FFS.bits)>>)
               ELSE CountPrev
      Ext == CreateZExtOrTrunc(IF IsCntPhiUsedOutsideLoop THEN CountPrev ELSE Count,
                               lp.cntBits)
      NewCount == IF isZero(lp.CntInitVal) THEN Ext
                  ELSE Node("add", lp.cntBits, <<Ext, lp.CntInitVal>>)
  IN [LbCond |-> FFSLatchCond(lp, st, Count),
      PreCond |-> st.PreCond,
      TcPhi |-> [exists |-> TRUE, init |-> Count, bits |-> Count.bits],
      newInsts |-> st.newInsts \o
                   (IF InitXNext # InitX THEN <<InitXNext>> ELSE <<>>) \o
                   <<FFS, CountPrev>> \o
                   (IF Count # CountPrev THEN <<Count>> ELSE <<>>) \o
                   (IF Ext.op = "zext_or_trunc" THEN <<Ext>> ELSE <<>>) \o
                   (IF NewCount # Ext THEN <<NewCount>> ELSE <<>>),
      replaced |-> [inst |-> st.replaced.inst \/ ~IsCntPhiUsedOutsideLoop,
                    phi |-> st.replaced.phi \/ IsCntPhiUsedOutsideLoop,
                    by |-> NewCount],
      forgotten |-> forgetLoop(st),
      matched |-> "ffs",
      ret |-> TRUE]

\* The costs TargetTransformInfo reports are TCC_Free, TCC_Basic and
\* TCC_Expensive, in rising order.
CostAboveBasic(cost) == cost = "TCC_Expensive"

\* A faulty variant: the test of the header's size is turned around.
FFSNotProfitableIfCanonical(lp) ==
  lp.headerSize = IdiomCanonicalSize /\ CostAboveBasic(lp.ffsCost)

\* The profitability test: the header is not the canonical six
\* instructions and the intrinsic costs more than a basic operation.
FFSNotProfitable(lp) ==
  lp.headerSize # IdiomCanonicalSize /\ CostAboveBasic(lp.ffsCost)

recognizeAndInsertFFS(lp, st) ==
  LET d == detectShiftUntilZeroIdiom(lp, st)
      IsCntPhiUsedOutsideLoop == UsedOutside(lp, st.replaced, d.CntPhi)
      IsCntInstUsedOutsideLoop == UsedOutside(lp, st.replaced, d.CntInst)
      ZeroCheck == ~IsCntPhiUsedOutsideLoop
  IN
  IF lp.numBackEdges # 1 \/ lp.numBlocks # 1 THEN st
  ELSE IF ~d.ok THEN st
  ELSE IF IsCntInstUsedOutsideLoop /\ IsCntPhiUsedOutsideLoop THEN st
  ELSE IF ~IsCntPhiUsedOutsideLoop /\
          matchCondition(lp.PreCondBr, st.PreCond, "PH") # d.InitX THEN st
  ELSE IF FFSNotProfitable(lp) THEN st
  ELSE transformLoopToCountable(lp, st, d.IntrinID, d.InitX, d.DefX, ZeroCheck,
                                IsCntPhiUsedOutsideLoop)

\* ------------------------------------------------------------------------
\* The matchers as steps
\* ------------------------------------------------------------------------

IdiomWork ==
  [LbCond |-> LbCond, PreCond |-> PreCond, TcPhi |-> TcPhi,
   newInsts |-> newInsts, replaced |-> replaced, forgotten |-> forgotten,
   matched |-> matched, ret |-> FALSE]

IdiomCommit(st) ==
  /\ LbCond' = st.LbCond
  /\ PreCond' = st.PreCond
  /\ TcPhi' = st.TcPhi
  /\ newInsts' = st.newInsts
  /\ replaced' = st.replaced
  /\ forgotten' = st.forgotten
  /\ matched' = st.matched

RecognizePopcount ==
  /\ pcN = "popcount"
  /\ IdiomCommit(recognizePopcount(idiomLoop, IdiomWork))
  /\ pcN' = IF recognizePopcount(idiomLoop, IdiomWork).ret
            THEN "done" ELSE "rejected"
  /\ UNCHANGED idiomLoop
  /\ UNCHANGED notN

RecognizeAndInsertFFS ==
  /\ pcN = "ffs"
  /\ IdiomCommit(recognizeAndInsertFFS(idiomLoop, IdiomWork))
  /\ pcN' = IF recognizeAndInsertFFS(idiomLoop, IdiomWork).ret
            THEN "done" ELSE "rejected"
  /\ UNCHANGED idiomLoop
  /\ UNCHANGED notN

\* ========================================================================
\* The driver: runOnLoop, runOnNoncountableLoop
\* ========================================================================

\* The functions the pass does not touch, since it would make them call
\* themselves.
IdiomFunctionNames == {"memset", "memcpy", "memcmp", "bcmp"}

\* TargetLibraryInfo offers at least one of memset, memset_pattern16,
\* memcpy, memcmp, bcmp.
HasAnyLibFunc ==
  \/ fLoop.hasMemset
  \/ fLoop.hasMemsetPattern
  \/ fLoop.hasMemcpy
  \/ bcmpLoop.hasMemCmp
  \/ bcmpLoop.hasBCmp

\* SE->hasLoopInvariantBackedgeTakenCount(L): what SE knew of the loop as
\* it came, and, once a rewrite has given the loop a trip counter that
\* runs down to zero and has made SE forget the loop, the count of that.
hasLoopInvariantBackedgeTakenCount == countable \/ (forgotten /\ TcPhi.exists)

\* A faulty variant: the library functions are not looked at.
RunsCountableWithoutLibFuncs == hasLoopInvariantBackedgeTakenCount

\* runOnLoop hands the loop to runOnCountableLoop.
RunsCountable == HasAnyLibFunc /\ hasLoopInvariantBackedgeTakenCount

\* A faulty variant: find-first-set before popcount.
MatcherOrderFFSFirst == <<"bcmp", "ffs", "popcount">>

\* The operands of the short-circuit "or" of runOnNoncountableLoop.
MatcherOrder == <<"bcmp", "popcount", "ffs">>

\* The loop as the pass can have changed it.
LoopIR ==
  [body |-> body, pre |-> pre, LbCond |-> LbCond, PreCond |-> PreCond,
   TcPhi |-> TcPhi, newInsts |-> newInsts, replaced |-> replaced,
   blocks |-> blocks, term |-> term, phis |-> phis, bcmpCall |-> bcmpCall]

\* What the driver leaves alone of the components.
frameB == <<bcmpLoop, blocks, term, phis, dtEdges, loopOf, curLoop,
            markedDeleted, seCached, bcmpCall>>

frameF == <<fLoop, body, pre, qMemset, qPattern, qCopy>>

frameN == <<idiomLoop, LbCond, PreCond, TcPhi, newInsts, replaced, forgotten,
            matched>>

\* The call of a matcher.
CallMatcher(m) ==
  /\ tried' = Append(tried, [m |-> m, ret |-> "running"])
  /\ pcB' = IF m = "bcmp" THEN "start" ELSE pcB
  /\ pcN' = IF m = "bcmp" THEN pcN ELSE m

\* The matcher that runs or has run last, and where it stands.
LastMatcher == tried[Len(tried)].m

MatcherPc == IF LastMatcher = "bcmp" THEN pcB ELSE pcN

Return(r) ==
  /\ rets' = Append(rets, r)
  /\ pcD' = "returned"

\* runOnLoop up to the call of runOnCountableLoop or of the first matcher
\* of runOnNoncountableLoop.
DRunOnLoop ==
  /\ pcD = "entry"
  /\ IF ~hasPreheader \/ fnName \in IdiomFunctionNames
     THEN /\ Return(FALSE)
          /\ UNCHANGED <<tried, pcB, pcN, pcF, madeChange, attempts, scan>>
     ELSE IF RunsCountable
     THEN /\ pcF' = "start"
          /\ madeChange' = FALSE
          /\ scan' = NoScan
          /\ attempts' = <<>>
          /\ pcD' = "countable"
          /\ UNCHANGED <<tried, pcB, pcN, rets>>
     ELSE /\ CallMatcher(MatcherOrder[1])
          /\ pcD' = "noncountable"
          /\ UNCHANGED <<pcF, madeChange, attempts, scan, rets>>
  /\ UNCHANGED <<frameB, frameF, frameN>>
  /\ UNCHANGED <<hasPreheader, fnName, countable, snap>>

\* runOnCountableLoop returns MadeChange, and runOnLoop returns that.
DCountableReturns ==
  /\ pcD = "countable"
  /\ pcF = "done"
  /\ Return(madeChange)
  /\ UNCHANGED <<tried, pcB, pcN, pcF, madeChange, attempts, scan>>
  /\ UNCHANGED <<frameB, frameF, frameN>>
  /\ UNCHANGED <<hasPreheader, fnName, countable, snap>>

\* A matcher returns into the short-circuit "or": true ends it, false
\* calls the next operand, or ends it when there is none.
DMatcherReturns ==
  /\ pcD = "noncountable"
  /\ MatcherPc \in {"rejected", "done"}
  /\ LET r == (MatcherPc = "done")
         log == [tried EXCEPT ![Len(tried)].ret = IF r THEN "true" ELSE "false"]
     IN
     IF r \/ Len(tried) = Len(MatcherOrder)
     THEN /\ tried' = log
          /\ Return(r)
          /\ UNCHANGED <<pcB, pcN>>
     ELSE /\ tried' = Append(log, [m |-> MatcherOrder[Len(tried) + 1],
                                   ret |-> "running"])
          /\ pcB' = IF MatcherOrder[Len(tried) + 1] = "bcmp" THEN "start" ELSE pcB
          /\ pcN' = IF MatcherOrder[Len(tried) + 1] = "bcmp" THEN pcN
                    ELSE MatcherOrder[Len(tried) + 1]
          /\ UNCHANGED <<rets, pcD>>
  /\ UNCHANGED <<pcF, madeChange, attempts, scan>>
  /\ UNCHANGED <<frameB, frameF, frameN>>
  /\ UNCHANGED <<hasPreheader, fnName, countable, snap>>

\* The pass is run on the loop again, right away. (A loop that the
\* byte-compare rewrite has deleted cannot be handed to it again.)
DRunAgain ==
  /\ pcD = "returned"
  /\ Len(rets) = 1
  /\ pcB # "done"
  /\ snap' = LoopIR
  /\ tried' = <<>>
  /\ pcD' = "entry"
  /\ UNCHANGED <<pcB, pcN, pcF, madeChange, attempts, scan, rets>>
  /\ UNCHANGED <<frameB, frameF, frameN>>
  /\ UNCHANGED <<hasPreheader, fnName, countable>>
\* ========================================================================
\* Specifications
\* ========================================================================

\* The components at rest.
IdleB ==
  /\ bcmpLoop = BaseBCmpLoop
  /\ blocks = InitBlocks(bcmpLoop)
  /\ term = InitTerm(bcmpLoop)
  /\ phis = InitPhis(bcmpLoop)
  /\ dtEdges = CfgEdges(InitTerm(bcmpLoop), InitBlocks(bcmpLoop))
  /\ loopOf = InitLoopOf(bcmpLoop)
  /\ curLoop = "L"
  /\ markedDeleted = {}
  /\ seCached = TRUE
  /\ bcmpCall = NoCall
  /\ pcB = "idle"

IdleF ==
  /\ fLoop = CountableLoop(<<>>, 0, TRUE)
  /\ body = <<>>
  /\ pre = <<>>
  /\ qMemset = <<>>
  /\ qPattern = <<>>
  /\ qCopy = <<>>
  /\ attempts = <<>>
  /\ madeChange = FALSE
  /\ scan = NoScan
  /\ pcF = "idle"

IdleN ==
  /\ idiomLoop = BasePopcountLoop
  /\ LbCond = BasePopcountLoop.LbCond
  /\ PreCond = BasePopcountLoop.PreCond
  /\ TcPhi = NoTcPhi
  /\ newInsts = <<>>
  /\ replaced = NoneReplaced
  /\ forgotten = FALSE
  /\ matched = "none"
  /\ pcN = "idle"

\* ------------------------------------------------------------------------
\* The driver on loops of the three shapes
\* ------------------------------------------------------------------------

LibFuncs == {"memset", "memset_pattern16", "memcpy", "memcmp", "bcmp"}

\* What TargetLibraryInfo may offer: nothing, one function, everything.
LibFuncSets == {{}, LibFuncs} \cup { {f} : f \in LibFuncs }

\* The three views of one loop, under the library functions T.
bcmpView(lp, T) ==
  [lp EXCEPT !.hasMemCmp = ("memcmp" \in T), !.hasBCmp = ("bcmp" \in T)]

fillView(lp, T) ==
  [lp EXCEPT !.hasMemset = ("memset" \in T),
             !.hasMemsetPattern = ("memset_pattern16" \in T),
             !.hasMemcpy = ("memcpy" \in T)]

\* Loops of the byte-compare shape: two blocks, loads only.
DriverBCmpLoops ==
  { BCmpLoop(p, se, lf, ne, 1, 1, FALSE, D, TRUE) :
      p \in {"EQ", "NE"}, se \in BOOLEAN, lf \in BOOLEAN, ne \in BOOLEAN,
      D \in {{}, {1}} } \cup
  { [BaseBCmpLoop EXCEPT !.sideEffect = TRUE],
    [BaseBCmpLoop EXCEPT !.exitCountKnown = FALSE] }

\* Loops of the popcount and shift shapes: one block, which may also hold
\* a store that runs along with the counter.
DriverIdiomLoops ==
  {lp \in GoodIdiomLoops : /\ lp.cntBits = XBits
                            /\ isZero(lp.CntInitVal)
                            /\ \E k \in 0 .. XBits : lp.x0 = Pow2(k) - 1} \cup
  OddIdiomLoops

\* The backedge-taken count of such a loop and what its block holds
\* besides the idiom: nothing, a fill store, or a load and a store of it.
DriverIdiomBodies(lp) ==
  LET o == OriginalOutcome(lp)
      be == IF o.entered /\ ~o.stuck /\ o.iters - 1 \in 0 .. MaxBE
            THEN o.iters - 1 ELSE 1
  IN { <<be, <<>> >>,
       <<be, <<StoreI(1, "A", RunStart(be, FALSE, 1), 1, 1, ConstVal(<<1>>))>> >>,
       <<be, <<LoadI(1, "B", RunStart(be, FALSE, 1), 1, 1),
               StoreI(2, "A", RunStart(be, FALSE, 1), 1, 1, LoadedVal(1))>> >> }

\* Loops of the store shapes.
DriverFillLoops ==
  UNION { Settings(CountableLoop(b, 1, bc)) : b \in CoreBodies(1, FALSE), bc \in BOOLEAN }

IdleD ==
  /\ hasPreheader = TRUE
  /\ fnName = "f"
  /\ countable = FALSE
  /\ tried = <<>>
  /\ rets = <<>>
  /\ snap = LoopIR
  /\ pcD = "idle"


InitBCmp ==
  /\ IdleF
  /\ IdleN
  /\ \/ \E n \in 0 .. MaxExitCount : bcmpLoop \in GoodBCmpLoops(n, 1)
     \/ \E n \in 0 .. MaxWideCount : bcmpLoop \in GoodBCmpLoops(n, 2)
     \/ bcmpLoop \in OddBCmpLoops
  /\ blocks = InitBlocks(bcmpLoop)
  /\ term = InitTerm(bcmpLoop)
  /\ phis = InitPhis(bcmpLoop)
  /\ dtEdges = CfgEdges(InitTerm(bcmpLoop), InitBlocks(bcmpLoop))
  /\ loopOf = InitLoopOf(bcmpLoop)
  /\ curLoop = "L"
  /\ markedDeleted = {}
  /\ seCached = TRUE
  /\ bcmpCall = NoCall
  /\ pcB = "start"
  /\ IdleD

NextBCmp ==
  \/ BCmpAssertFails
  \/ BCmpReject
  \/ BCmpEmitCall
  \/ BCmpDetachLoop
  \/ BCmpMarkDeleted
  \/ BCmpDeleteLoop
  \/ BCmpRestoreCFG
  \/ BCmpMergeDispatch
  \/ BCmpFinishTopLevel
  \/ BCmpFinishNested
  \/ BCmpNullTerminator

SpecBCmp == InitBCmp /\ [][NextBCmp]_vars


InitFill ==
  /\ IdleB
  /\ IdleN
  /\ fLoop \in CountableLoops
  /\ body = fLoop.body
  /\ pre = <<>>
  /\ qMemset = <<>>
  /\ qPattern = <<>>
  /\ qCopy = <<>>
  /\ attempts = <<>>
  /\ madeChange = FALSE
  /\ scan = NoScan
  /\ pcF = "start"
  /\ IdleD

NextFill ==
  \/ FRunOnCountableLoop
  \/ FMemsetStores
  \/ FPatternStores
  \/ FCopyStore
  \/ FMemSetScan

SpecFill == InitFill /\ [][NextFill]_vars


InitIdiom ==
  /\ IdleB
  /\ IdleF
  /\ idiomLoop \in GoodIdiomLoops \cup OddIdiomLoops
  /\ LbCond = idiomLoop.LbCond
  /\ PreCond = idiomLoop.PreCond
  /\ TcPhi = NoTcPhi
  /\ newInsts = <<>>
  /\ replaced = NoneReplaced
  /\ forgotten = FALSE
  /\ matched = "none"
  /\ pcN \in {"popcount", "ffs"}
  /\ IdleD

NextIdiom ==
  \/ RecognizePopcount
  \/ RecognizeAndInsertFFS

SpecIdiom == InitIdiom /\ [][NextIdiom]_vars


\* The state at the entry of runOnLoop, of a loop seen by the three
\* components as bl, fl and il.
InitLoop(bl, fl, il) ==
  /\ bcmpLoop = bl
  /\ blocks = InitBlocks(bl)
  /\ term = InitTerm(bl)
  /\ phis = InitPhis(bl)
  /\ dtEdges = CfgEdges(InitTerm(bl), InitBlocks(bl))
  /\ loopOf = InitLoopOf(bl)
  /\ curLoop = "L"
  /\ markedDeleted = {}
  /\ seCached = TRUE
  /\ bcmpCall = NoCall
  /\ pcB = "idle"
  /\ fLoop = fl
  /\ body = fl.body
  /\ pre = <<>>
  /\ qMemset = <<>>
  /\ qPattern = <<>>
  /\ qCopy = <<>>
  /\ attempts = <<>>
  /\ madeChange = FALSE
  /\ scan = NoScan
  /\ pcF = "idle"
  /\ idiomLoop = il
  /\ LbCond = il.LbCond
  /\ PreCond = il.PreCond
  /\ TcPhi = NoTcPhi
  /\ newInsts = <<>>
  /\ replaced = NoneReplaced
  /\ forgotten = FALSE
  /\ matched = "none"
  /\ pcN = "idle"

\* How the three components see a loop of another shape.
NoBCmpLoop(n) == [BaseBCmpLoop EXCEPT !.numBlocks = n, !.cmpOfLoads = FALSE]

NoIdiomLoop(n) ==
  [BasePopcountLoop EXCEPT !.numBlocks = n,
                           !.LbCond.op1 = ConstantInt(1, XBits)]

NoStoreLoop(n, ne) ==
  [CountableLoop(<<>>, 1, FALSE) EXCEPT !.numBlocks = n, !.nested = ne]

\* Loops runOnLoop returns from at once: no preheader, or a function
\* with the name of a library function.
DriverEntries == { <<FALSE, "f">>, <<TRUE, "memset">>, <<TRUE, "bcmp">> }

InitDriver ==
  /\ \/ /\ \E T \in LibFuncSets :
            \/ \E bl \in DriverBCmpLoops :
                 InitLoop(bcmpView(bl, T), fillView(NoStoreLoop(2, bl.nested), T),
                          NoIdiomLoop(2))
            \/ \E il \in DriverIdiomLoops :
                 \E bb \in DriverIdiomBodies(il) :
                   InitLoop(bcmpView(NoBCmpLoop(il.numBlocks), T),
                            fillView([CountableLoop(bb[2], bb[1], FALSE)
                                        EXCEPT !.numBlocks = il.numBlocks], T),
                            il)
            \/ \E fl \in DriverFillLoops :
                 InitLoop(bcmpView(NoBCmpLoop(fl.numBlocks), T), fillView(fl, T),
                          NoIdiomLoop(fl.numBlocks))
        /\ hasPreheader = TRUE
        /\ fnName = "f"
     \/ /\ \E bl \in DriverBCmpLoops :
             InitLoop(bl, NoStoreLoop(2, bl.nested), NoIdiomLoop(2))
        /\ \E e \in DriverEntries : hasPreheader = e[1] /\ fnName = e[2]
  /\ countable \in BOOLEAN
  /\ tried = <<>>
  /\ rets = <<>>
  /\ snap = LoopIR
  /\ pcD = "entry"

NextDriver ==
  \/ DRunOnLoop
  \/ DCountableReturns
  \/ DMatcherReturns
  \/ DRunAgain
  \/ BCmpReject
  \/ BCmpEmitCall
  \/ BCmpDetachLoop
  \/ BCmpMarkDeleted
  \/ BCmpDeleteLoop
  \/ BCmpRestoreCFG
  \/ BCmpMergeDispatch
  \/ BCmpFinishTopLevel
  \/ BCmpFinishNested
  \/ FRunOnCountableLoop
  \/ FMemsetStores
  \/ FPatternStores
  \/ FCopyStore
  \/ FMemSetScan
  \/ RecognizePopcount
  \/ RecognizeAndInsertFFS

SpecDriver == InitDriver /\ [][NextDriver]_vars
\* ========================================================================
\* Properties
\* ========================================================================

\* C1: byte-compare equivalence. Once the rewrite of an accepted loop is
\* finished, the function leaves through the exit block the original loop
\* leaves through (the latch's exit iff all compared elements are equal,
\* the header's exit otherwise) and that block's PHI yields the value the
\* original loop supplies on that edge, for all buffer contents.
C1_BCmpEquivalence ==
  pcB = "done" =>
    /\ RewrittenObserved = OriginalObserved
    /\ RewrittenObserved.exit =
         (IF AllElementsEqual(bcmpLoop) THEN LatchExit(bcmpLoop)
          ELSE HdrExit(bcmpLoop))


\* The attempts of the history that returned true, by kind.
Fired(kind) ==
  {k \in 1 .. Len(attempts) : attempts[k].fired /\ attempts[k].kind = kind}

\* All stores of the attempt's run store one and the same constant byte.
OneValue(a) ==
  \A x \in a.stores : \A y \in a.stores :
     /\ InstrById(a.bodyBefore, x).val.k = "const"
     /\ isBytewiseValue(InstrById(a.bodyBefore, x).val, 1).byte =
          isBytewiseValue(InstrById(a.bodyBefore, y).val, 1).byte

\* C2: semantic preservation (fill). When a store, or a merged run of
\* stores, of one loop-invariant byte-uniform value whose sizes add up to
\* the absolute stride has been rewritten, the memory after the preheader
\* (with the fill call) and the loop without those stores equals, at every
\* address, the memory after the original loop, for every backedge-taken
\* count and both signs of the stride.
C2_FillPreservesMemory ==
  (Fired("fill") # {} /\ \A k \in Fired("fill") : OneValue(attempts[k])) =>
    LET rewritten == FinalMem(pre, body, fLoop.be)
        original == FinalMem(<<>>, fLoop.body, fLoop.be)
    IN \A a \in Addrs : rewritten[a] = original[a]

\* Witness of C2: a merged run of two stores with negative stride has been
\* rewritten in a loop whose backedge is taken MaxBE times.
C2_Witness ==
  \E k \in Fired("fill") :
     /\ OneValue(attempts[k])
     /\ Cardinality(attempts[k].stores) = 2
     /\ InstrById(attempts[k].bodyBefore, 1).stride < 0
     /\ fLoop.be = MaxBE

\* The lowest byte offset an instruction touches over the whole loop.
LowestOffset(ins) == Min(ins.start, ins.start + fLoop.be * ins.stride)

\* The store and the load of a copy attempt.
CopyStore(a) == InstrById(a.bodyBefore, CHOOSE id \in a.stores : TRUE)

CopyLoad(a) == InstrById(a.bodyBefore, CopyStore(a).val.of)

\* Source and destination regions of a copy attempt share no byte.
Disjoint(a) ==
  \/ CopyStore(a).obj # CopyLoad(a).obj
  \/ LowestOffset(CopyStore(a)) + a.len <= LowestOffset(CopyLoad(a))
  \/ LowestOffset(CopyLoad(a)) + a.len <= LowestOffset(CopyStore(a))

\* C3: semantic preservation (copy). When a store of a loaded value has
\* been rewritten into a copy call and source and destination regions do
\* not overlap, every destination byte after the rewritten program holds
\* the source byte as it was before the loop, exactly as after the original
\* loop, for both signs of the stride and every backedge-taken count.
C3_CopyPreservesMemory ==
  \A k \in Fired("copy") :
     Disjoint(attempts[k]) =>
       LET rewritten == FinalMem(pre, body, fLoop.be)
           original == FinalMem(<<>>, fLoop.body, fLoop.be)
       IN \A j \in 0 .. attempts[k].len - 1 :
          LET dst == <<CopyStore(attempts[k]).obj, LowestOffset(CopyStore(attempts[k])) + j>>
              src == <<CopyLoad(attempts[k]).obj, LowestOffset(CopyLoad(attempts[k])) + j>>
          IN /\ rewritten[dst] = InitMem[src]
             /\ original[dst] = InitMem[src]

\* Witness of C3: a copy with negative stride of two-byte elements has
\* been rewritten in a loop whose backedge is taken at least once.
C3_Witness ==
  \E k \in Fired("copy") :
     /\ Disjoint(attempts[k])
     /\ CopyStore(attempts[k]).stride = 0 - 2
     /\ fLoop.be >= 1

\* The calls of a preheader.
Calls(ps) == SelectSeq(ps, IsCall)

\* C4: alias rejection. If an instruction of the loop other than the
\* stores being merged reads or writes a byte of the destination region
\* of an attempt, the attempt does not fire: it emits no call and deletes
\* none of the stores of its run.
C4_AliasRejection ==
  \A k \in 1 .. Len(attempts) :
     LET a == attempts[k] IN
     TrulyAccessed(fLoop, a.bodyBefore, a.obj, a.lo, a.len, a.stores) =>
       /\ ~a.fired
       /\ Calls(a.preAfter) = Calls(a.preBefore)
       /\ a.stores \subseteq Ids(a.bodyAfter)

\* Witness of C4: an attempt whose region another store, and one whose
\* region a load of the loop touches, has been made under precise alias
\* analysis.
C4_Witness ==
  /\ fLoop.aaPrecise
  /\ \E k \in 1 .. Len(attempts) :
       LET a == attempts[k] IN
       /\ TrulyAccessed(fLoop, a.bodyBefore, a.obj, a.lo, a.len, a.stores)
       /\ a.kind = "fill"
       /\ Len(a.bodyBefore) = 2
       /\ a.bodyBefore[2].op = "load"

\* C7: rewrites are transactional. An attempt that ends as a failure
\* leaves the loop's instructions and the preheader exactly as it found
\* them; no address or byte-count instruction it emitted remains.
C7_Transactional ==
  \A k \in 1 .. Len(attempts) :
     ~attempts[k].fired =>
       /\ attempts[k].bodyAfter = attempts[k].bodyBefore
       /\ attempts[k].preAfter = attempts[k].preBefore


\* What the code after the loop sees in the function as it is now.
RewrittenOutcome == Outcome(idiomLoop, LbCond, PreCond, TcPhi, replaced)

\* C5: popcount equivalence. After the popcount rewrite of an accepted
\* loop, for every seed of the bounded width, the loop is entered exactly
\* when it was entered before (for seed 0 the new test of the count
\* against zero skips it, as the old test of the seed did), and every use
\* of the counter outside the loop reads what it read before: the
\* counter's initial value plus the number of set bits of the seed.
C5_PopcountEquivalence ==
  (pcN = "done" /\ matched = "popcount") =>
    /\ RewrittenOutcome.entered = OriginalOutcome(idiomLoop).entered
    /\ (idiomLoop.x0 = 0 => ~RewrittenOutcome.entered)
    /\ OriginalOutcome(idiomLoop).entered =>
         /\ RewrittenOutcome.CntInst = OriginalOutcome(idiomLoop).CntInst
         /\ RewrittenOutcome.CntInst =
              (idiomLoop.cnt0 + PopCount(idiomLoop.x0)) % Pow2(idiomLoop.cntBits)

\* Witness of C5: the rewrite has been applied for the all-ones seed with
\* a counter narrower than the seed that does not start at zero.
C5_Witness ==
  /\ pcN = "done"
  /\ matched = "popcount"
  /\ idiomLoop.x0 = Pow2(XBits) - 1
  /\ idiomLoop.cntBits < XBits
  /\ idiomLoop.cnt0 # 0
  /\ RewrittenOutcome.entered

\* C6: find-first-set equivalence. After the find-first-set rewrite of an
\* accepted loop (shift right or left by one), for every seed with which
\* the original program reaches the loop, the uses outside the loop of the
\* counter, through the phi or through the incremented value, read the
\* value the original loop produced.
C6_FFSEquivalence ==
  (pcN = "done" /\ matched = "ffs") =>
    /\ RewrittenOutcome.entered = OriginalOutcome(idiomLoop).entered
    /\ OriginalOutcome(idiomLoop).entered =>
         /\ idiomLoop.cntInstOut =>
              RewrittenOutcome.CntInst = OriginalOutcome(idiomLoop).CntInst
         /\ idiomLoop.cntPhiOut =>
              RewrittenOutcome.CntPhi = OriginalOutcome(idiomLoop).CntPhi

\* Witness of C6: a left-shift loop whose counter phi is read outside the
\* loop has been rewritten and is reached with seed 0.
C6_Witness ==
  /\ pcN = "done"
  /\ matched = "ffs"
  /\ idiomLoop.insts.DefX.opcode = "Shl"
  /\ idiomLoop.cntPhiOut
  /\ replaced.phi
  /\ idiomLoop.x0 = 0
  /\ RewrittenOutcome.entered


\* The names of the matchers the current run has called, in order.
TriedNames == [i \in 1 .. Len(tried) |-> tried[i].m]

IsPrefix(s, t) == Len(s) <= Len(t) /\ \A i \in 1 .. Len(s) : s[i] = t[i]

\* Every matcher called before the last one returned false, and a run
\* that has returned returned what the last one did, having called all
\* three if that is false.
FirstSuccessWins ==
  /\ \A i \in 1 .. Len(tried) - 1 : tried[i].ret = "false"
  /\ (pcD = "returned" /\ tried # <<>>) =>
       /\ tried[Len(tried)].ret # "running"
       /\ rets[Len(rets)] = (tried[Len(tried)].ret = "true")
       /\ tried[Len(tried)].ret = "false" => Len(tried) = 3

\* C8 as stated: the noncountable matchers are called in the order
\* byte-compare, find-first-set, popcount, and the first that succeeds
\* ends the attempt.
C8_OrderAsStated ==
  /\ IsPrefix(TriedNames, <<"bcmp", "ffs", "popcount">>)
  /\ FirstSuccessWins

\* C8: the noncountable matchers are called in the order byte-compare,
\* popcount, find-first-set, and the first that succeeds ends the attempt:
\* no later matcher is called on that loop in the same run.
C8_MatcherOrder ==
  /\ IsPrefix(TriedNames, <<"bcmp", "popcount", "ffs">>)
  /\ FirstSuccessWins

C8_Witness ==
  /\ pcD = "returned"
  /\ Len(tried) = 2
  /\ tried[1] = [m |-> "bcmp", ret |-> "false"]
  /\ tried[2] = [m |-> "popcount", ret |-> "true"]
  /\ matched = "popcount"
  /\ rets = <<TRUE>>

NoLibFunc == ~HasAnyLibFunc

\* C9 as stated: with none of the library functions (memset,
\* memset_pattern16, memcpy, memcmp, bcmp) runOnLoop aborts: it returns
\* false, no matcher is reached and nothing rewrites the loop.
C9_AbortsAsStated ==
  (NoLibFunc /\ pcD = "returned") =>
    /\ rets[Len(rets)] = FALSE
    /\ matched = "none"
    /\ tried = <<>>

\* C9: with none of the library functions runOnLoop skips the
\* countable-loop rewriter only, whatever SE knows of the trip count: the
\* stores of the loop stay as they are, the noncountable matchers are
\* called, the byte-compare matcher rejects and popcount is called after
\* it, and runOnLoop returns true exactly if popcount or find-first-set
\* has rewritten the loop in that run.
C9_NoLibFuncs ==
  NoLibFunc =>
    /\ pcD # "countable"
    /\ pcF = "idle"
    /\ body = fLoop.body
    /\ pre = <<>>
    /\ pcB \in {"idle", "start", "rejected"}
    /\ bcmpCall = NoCall
    /\ (pcD = "returned" /\ hasPreheader /\ fnName \notin IdiomFunctionNames) =>
         /\ Len(tried) >= 2
         /\ tried[1] = [m |-> "bcmp", ret |-> "false"]
         /\ rets[Len(rets)] = (tried[Len(tried)].ret = "true")
         /\ rets[Len(rets)] => matched \in {"popcount", "ffs"}

C9_Witness ==
  /\ NoLibFunc
  /\ countable
  /\ pcD = "returned"
  /\ rets = <<TRUE>>
  /\ matched = "ffs"
  /\ Len(tried) = 3

\* C10 as stated: a second run of runOnLoop right after a first returns
\* false and leaves the loop as the first run left it, whatever the first
\* run did.
C10_IdempotentAsStated ==
  (pcD = "returned" /\ Len(rets) = 2) =>
    /\ rets[2] = FALSE
    /\ LoopIR = snap

\* What the noncountable matchers write of the loop.
MatcherIR(ir) ==
  [LbCond |-> ir.LbCond, PreCond |-> ir.PreCond, TcPhi |-> ir.TcPhi,
   newInsts |-> ir.newInsts, replaced |-> ir.replaced, blocks |-> ir.blocks,
   term |-> ir.term, phis |-> ir.phis, bcmpCall |-> ir.bcmpCall]

\* C10: a second run of runOnLoop right after a first applies none of the
\* noncountable rewrites again and leaves what they wrote as the first run
\* left it; it returns false if the first run did; and if it returns true,
\* it is the countable-loop rewriter that has changed stores of the loop.
C10_SecondRun ==
  (pcD = "returned" /\ Len(rets) = 2) =>
    /\ MatcherIR(LoopIR) = MatcherIR(snap)
    /\ \A i \in 1 .. Len(tried) : tried[i].ret = "false"
    /\ rets[1] = FALSE => rets[2] = FALSE
    /\ rets[2] = TRUE => (tried = <<>> /\ madeChange /\ body # snap.body)

C10_Witness ==
  /\ pcD = "returned"
  /\ rets = <<TRUE, TRUE>>
  /\ matched = "ffs"
  /\ snap.TcPhi.exists
  /\ body # snap.body
  /\ MatcherIR(LoopIR) = MatcherIR(snap)


\* ------------------------------------------------------------------------
\* Properties of the analyses' caches and of the classifiers
\* ------------------------------------------------------------------------

\* SE has dropped what it had cached of the loop.
SEDropped == forgotten \/ ~seCached

\* C11 as stated: after any successful rewrite (fill, copy, popcount,
\* find-first-set, byte-compare) SE has dropped the cached trip-count facts
\* of the loop before runOnLoop returns.
C11_DroppedAsStated ==
  (pcD = "returned" /\ rets[Len(rets)]) => SEDropped

\* C11: when runOnLoop returns true after a popcount, find-first-set or
\* byte-compare rewrite, SE has forgotten the loop, and a query for the
\* trip count of a popcount or find-first-set loop answers with the count
\* of the new trip counter; after a fill or copy rewrite, which leaves the
\* loop's branches alone, SE has been told nothing.
C11_TripCountCache ==
  (pcD = "returned" /\ rets[Len(rets)]) =>
    /\ (tried # <<>> /\ LastMatcher = "bcmp") => ~seCached
    /\ (tried # <<>> /\ LastMatcher # "bcmp") =>
         (forgotten /\ TcPhi.exists /\ hasLoopInvariantBackedgeTakenCount)
    /\ tried = <<>> =>
         /\ madeChange
         /\ seCached
         /\ forgotten => (Len(rets) = 2 /\ matched # "none")
         /\ LbCond = snap.LbCond

C11_Witness ==
  /\ pcD = "returned"
  /\ rets = <<TRUE>>
  /\ matched = "popcount"
  /\ ~countable
  /\ forgotten
  /\ hasLoopInvariantBackedgeTakenCount

\* The byte-compare rewrite stands between two structural steps.
BetweenBCmpSteps == pcB \in {"detached", "marked", "deleted", "restored", "merged", "done"}

\* C12: in the byte-compare CFG rewrite every batch of dominator-tree
\* updates mirrors the CFG edits of its step, so that after each batch the
\* edges the dominator tree has been told of are the edges of the CFG.
C12_DTMirrorsCFG ==
  BetweenBCmpSteps => dtEdges = CfgEdges(term, blocks)


\* The byte-compare rewrite has fired on the loop.
BCmpFired == pcB \in {"emitted", "detached", "marked", "deleted", "restored", "merged", "done"}

\* C13: the byte-compare rewrite fires only on a loop of at most two
\* blocks in simplified form, whose header ends in a two-way branch on an
\* equality or inequality icmp of two simple loads with the latch as the
\* target taken on "equal", whose latch ends in a two-way branch with the
\* header as one target, in which nothing but the two loads has a side
\* effect, from which no exit-block PHI receives a value defined in the
\* loop, and whose two load addresses are affine recurrences of the loop
\* with the same constant step, the byte width of the compared element.
C13_BCmpPreconditions ==
  BCmpFired =>
    LET lp == bcmpLoop
        tm == InitTerm(bcmpLoop)
    IN /\ lp.numBlocks <= 2
       /\ lp.simplifyForm
       /\ lp.hdrBrOnICmp
       /\ tm["Hdr"].k = "condbr"
       /\ lp.cmpOfLoads
       /\ lp.simpleLoads
       /\ \/ lp.pred = "EQ" /\ tm["Hdr"].t = "Latch"
          \/ lp.pred = "NE" /\ tm["Hdr"].f = "Latch"
       /\ tm["Latch"].k = "condbr"
       /\ "Hdr" \in {tm["Latch"].t, tm["Latch"].f}
       /\ ~lp.sideEffect
       /\ ~lp.valueFromLoop
       /\ \A x \in ExitBlockNames : \A k \in 1 .. Len(InitPhis(lp)[x]) :
            InitPhis(lp)[x][k].blk \in LoopBlocks =>
              InitPhis(lp)[x][k].val # "loopdef"
       /\ lp.addRec
       /\ lp.stepA = lp.stepB
       /\ lp.stepA * ByteTyBits = lp.elemBits

C13_Witness ==
  /\ pcB = "done"
  /\ bcmpLoop.pred = "NE"
  /\ InitTerm(bcmpLoop)["Hdr"].f = "Latch"
  /\ InitTerm(bcmpLoop)["Latch"].t = "Hdr"
  /\ bcmpLoop.eb = 2
  /\ bcmpLoop.stepA = 2

\* The ids of the stores collectStores has put into one of its three
\* groups and that are still waiting there.
RECURSIVE Flatten(_)
Flatten(ss) == IF ss = <<>> THEN <<>> ELSE Head(ss) \o Flatten(Tail(ss))

Range(f) == {f[x] : x \in DOMAIN f}

QueuedStores == Range(Flatten(qMemset)) \cup Range(Flatten(qPattern)) \cup Range(qCopy)

\* The ids of the stores some rewrite was attempted on.
AttemptedStores == UNION {attempts[k].stores : k \in 1 .. Len(attempts)}

\* What the claim asks of a store that may become a candidate.
PassesStoreScreen(SI) ==
  /\ ~SI.volatile
  /\ ~SI.atomic \/ ~SI.ordered
  /\ ~SI.nonIntegral
  /\ ~SI.nontemporal
  /\ SI.oddBits = 0
  /\ SI.size < Pow2(32 - 3)
  /\ SI.ev = "addrec" /\ SI.stride # 0
  /\ SI.strideConst

\* C14: isLegalStore returns a candidate kind only for a store that is not
\* volatile, is simple or unordered-atomic, stores no non-integral pointer,
\* is not nontemporal, has a bit size that is a multiple of 8 below 2^32,
\* and whose address is an affine AddRec of the current loop with a
\* constant step; any other store is in none of the three candidate groups
\* and no rewrite is attempted on it.
C14_LegalStoreScreen ==
  \A k \in 1 .. Len(fLoop.body) :
    LET SI == fLoop.body[k] IN
    SI.op = "store" =>
      /\ isLegalStore(fLoop, fLoop.body, SI) # "None" => PassesStoreScreen(SI)
      /\ ~PassesStoreScreen(SI) =>
           /\ SI.id \notin QueuedStores \cup AttemptedStores
           /\ \E j \in 1 .. Len(body) : body[j] = SI

C14_Witness ==
  /\ pcF = "done"
  /\ fLoop.hasMemset
  /\ fLoop.body[1].op = "store"
  /\ fLoop.body[1].oddBits = 4
  /\ isBytewiseValue(fLoop.body[1].val, fLoop.body[1].size).ok
  /\ body = fLoop.body
  /\ attempts = <<>>

\* An accepted simple store to address space 0 of a constant of 1 to 16
\* bytes that is no memset candidate, with memset_pattern16 available on a
\* little-endian target.
PatternCase(SI) ==
  /\ SI.op = "store"
  /\ fLoop.hasMemsetPattern
  /\ ~fLoop.bigEndian
  /\ PassesStoreScreen(SI)
  /\ ~SI.atomic
  /\ SI.addrSpace = 0
  /\ SI.val.k \in {"const", "undef"}
  /\ SI.size \in 1 .. 16
  /\ isLegalStore(fLoop, fLoop.body, SI) # "Memset"

\* C15 as stated: every such store, of any whole number of bytes from 1 to
\* 16, is classified as a memset_pattern16 candidate.
C15_AnySizeAsStated ==
  \A k \in 1 .. Len(fLoop.body) :
    PatternCase(fLoop.body[k]) =>
      isLegalStore(fLoop, fLoop.body, fLoop.body[k]) = "MemsetPattern"

\* C15: such a store is classified as a memset_pattern16 candidate exactly
\* if its size is 1, 2, 4, 8 or 16 bytes; one of another size is in no
\* candidate group and no rewrite is attempted on it.
C15_PatternSizes ==
  \A k \in 1 .. Len(fLoop.body) :
    LET SI == fLoop.body[k] IN
    PatternCase(SI) =>
      /\ isLegalStore(fLoop, fLoop.body, SI) = "MemsetPattern"
           <=> SI.size \in {1, 2, 4, 8, 16}
      /\ SI.id \in Range(Flatten(qPattern)) => SI.size \in {1, 2, 4, 8, 16}
      /\ SI.size \notin {1, 2, 4, 8, 16} =>
           SI.id \notin QueuedStores \cup AttemptedStores

C15_Witness ==
  /\ pcF = "done"
  /\ PatternCase(fLoop.body[1])
  /\ fLoop.body[1].size = 4
  /\ madeChange
  /\ \E k \in 1 .. Len(pre) : pre[k].op = "memset_pattern16" /\ Len(pre[k].bytes) = 4

\* The stores of an attempt's run, as the attempt found them.
RunOf(a) == {InstrById(a.bodyBefore, id) : id \in a.stores}

\* The store of the run at the lowest address: the head of its chain.
HeadOf(a) == CHOOSE h \in RunOf(a) : \A s \in RunOf(a) : h.start <= s.start

RECURSIVE SumOfSizes(_)
SumOfSizes(S) ==
  IF S = {} THEN 0
  ELSE LET s == CHOOSE x \in S : TRUE IN s.size + SumOfSizes(S \ {s})

\* The byte offsets the run writes in iteration 0.
BytesOf(S) == UNION { s.start .. s.start + s.size - 1 : s \in S }

\* C16: whenever a run of stores has been merged into one fill, the sizes
\* of exactly the stores deleted add up to the absolute stride of the head
\* store, all of them advance by that stride, and together they write every
\* byte of the stride-sized step that starts at the head, without a gap;
\* this holds as well for chains that share a tail.
C16_RunCoversStride ==
  \A k \in Fired("fill") :
    LET a == attempts[k]
        h == HeadOf(a)
    IN /\ Ids(a.bodyAfter) = Ids(a.bodyBefore) \ a.stores
       /\ SumOfSizes(RunOf(a)) = Abs(h.stride)
       /\ \A s \in RunOf(a) : s.obj = h.obj /\ s.stride = h.stride
       /\ BytesOf(RunOf(a)) = h.start .. h.start + Abs(h.stride) - 1

C16_Witness ==
  \E k \in Fired("fill") :
     /\ Cardinality(attempts[k].stores) = 3
     /\ Len(attempts[k].bodyBefore) = 3
     /\ attempts[k].bodyBefore[1].id = 3
     /\ HeadOf(attempts[k]).stride = 0 - 3
     /\ body = <<>>

\* The call an attempt that returned true has put last into the preheader.
CallOf(a) == a.preAfter[Len(a.preAfter)]

\* C17: in a merged run, the byte the emitted memset writes (or the pattern
\* the emitted memset_pattern16 repeats), which is taken from the head
\* store's value, is what every store of the run wrote, also when the head
\* or the tail of the run stores undef.
C17_RunWritesHeadValue ==
  \A k \in Fired("fill") :
    LET a == attempts[k] IN
    \A s \in RunOf(a) :
      IF CallOf(a).op = "memset"
      THEN isBytewiseValue(s.val, s.size).byte = CallOf(a).bytes[1]
      ELSE PatternBytes(s.val, s.size) = CallOf(a).bytes

\* Alias analysis may say that the instruction touches [lo, lo + len) of
\* obj: it does touch it in some iteration, or the analysis is imprecise.
MayTouch(I, obj, lo, len) ==
  /\ I.op \in {"store", "load", "memset"}
  /\ fLoop.aaPrecise =>
       /\ I.obj = obj
       /\ \E i \in 0 .. fLoop.be :
            /\ lo < I.start + i * I.stride + I.size
            /\ I.start + i * I.stride < lo + len

\* C18: a copy rewrite has fired only if no instruction of the loop other
\* than the candidate store (the feeding load included) may read or write
\* the destination region, and none other than the candidate store may
\* write the source region.
C18_CopyAliasScreen ==
  \A k \in Fired("copy") :
    LET a == attempts[k]
        SI == CopyStore(a)
        LI == CopyLoad(a)
    IN \A j \in 1 .. Len(a.bodyBefore) :
         LET I == a.bodyBefore[j] IN
         I.id # SI.id =>
           /\ ~MayTouch(I, SI.obj, LowestOffset(SI), a.len)
           /\ I.op # "load" => ~MayTouch(I, LI.obj, LowestOffset(LI), a.len)

\* Witness of C18: a copy has fired although another load of the loop
\* reads a byte of the source region.
C18_Witness ==
  \E k \in Fired("copy") :
    LET a == attempts[k] IN
    /\ Len(a.bodyBefore) = 3
    /\ a.bodyBefore[3].op = "load"
    /\ MayTouch(a.bodyBefore[3], CopyLoad(a).obj, LowestOffset(CopyLoad(a)), a.len)
    /\ fLoop.aaPrecise
    /\ fLoop.be >= 1

\* The backedge-taken count is the largest value of its type, a type
\* narrower than the pointer-sized one.
LargestNarrowCount == fLoop.beBits < SizeBits /\ fLoop.be = Pow2(fLoop.beBits) - 1

\* C19: the call a fill or copy rewrite has emitted starts at the start
\* of the head store (of the store and of the load, for a copy) if the
\* stride is positive and BECount * StoreSize below it if the stride is
\* negative, and its length is (BECount + 1) * StoreSize; for a count that
\* is the largest value of a type of k bits, narrower than a pointer, the
\* length is 2^k * StoreSize and not 0.
C19_EmittedRegion ==
  \A k \in Fired("fill") \cup Fired("copy") :
    LET a == attempts[k]
        h == HeadOf(a)
        S == SumOfSizes(RunOf(a))
        B == fLoop.be
        StartOf(I) == IF I.stride > 0 THEN I.start ELSE I.start - B * S
    IN /\ CallOf(a).obj = h.obj
       /\ CallOf(a).start = StartOf(h)
       /\ CallOf(a).len = (B + 1) * S
       /\ a.kind = "copy" =>
            /\ CallOf(a).srcObj = CopyLoad(a).obj
            /\ CallOf(a).srcStart = StartOf(CopyLoad(a))
       /\ LargestNarrowCount =>
            /\ CallOf(a).len = Pow2(fLoop.beBits) * S
            /\ CallOf(a).len # 0

\* Witness of C19: a copy with negative stride has been formed in a loop
\* whose backedge-taken count is the largest value of its narrow type.
C19_Witness ==
  \E k \in Fired("copy") :
     /\ LargestNarrowCount
     /\ CopyStore(attempts[k]).stride < 0
     /\ CopyStore(attempts[k]).size = 2

\* C20: a copy call emitted for a store of a loaded value is the
\* element-wise unordered-atomic copy exactly if the store or the load is
\* atomic, and the ordinary copy exactly if neither is; the atomic copy is
\* emitted only if the smaller of the two alignments is at least the
\* element size and the element size is at most the largest the target
\* supports.
C20_AtomicCopy ==
  \A k \in Fired("copy") :
    LET a == attempts[k]
        SI == CopyStore(a)
        LI == CopyLoad(a)
    IN /\ CallOf(a).op = "memcpy"
       /\ CallOf(a).atomic <=> (SI.atomic \/ LI.atomic)
       /\ (SI.atomic \/ LI.atomic) =>
            /\ SI.align >= SI.size
            /\ LI.align >= SI.size
            /\ SI.size <= fLoop.atomicMax

\* Witness of C20: an atomic copy has been formed for an ordinary store
\* of an atomically loaded value.
C20_Witness ==
  \E k \in Fired("copy") :
     /\ CopyLoad(attempts[k]).atomic
     /\ ~CopyStore(attempts[k]).atomic
     /\ CallOf(attempts[k]).atomic
     /\ fLoop.be = MaxBE

\* C21: a block that belongs to a subloop, or that does not dominate every
\* exit block of the loop, is never scanned: none of its stores is put
\* into a candidate group, no rewrite is attempted on it, nothing is put
\* into the preheader for it, and its stores and memsets stay as they are.
C21_UnscannedBlocks ==
  (fLoop.inSubLoop \/ ~fLoop.dominates) =>
    /\ body = fLoop.body
    /\ pre = <<>>
    /\ attempts = <<>>
    /\ QueuedStores = {}
    /\ ~madeChange

\* Witness of C21: runOnCountableLoop has returned from a loop whose block
\* holds a store fit for a memset, or a memset fit for widening, but does
\* not dominate the exits.
C21_Witness ==
  /\ pcF = "done"
  /\ ~fLoop.dominates
  /\ ~fLoop.mayThrow
  /\ fLoop.be = MaxBE
  /\ \/ isLegalStore(fLoop, fLoop.body, fLoop.body[1]) = "Memset"
     \/ fLoop.body[1].op = "memset"
  /\ body = fLoop.body

NumMemSets(b) == Cardinality({k \in 1 .. Len(b) : b[k].op = "memset"})

\* C22: the scan of a block for memsets ends at the end of the block and
\* never visits an instruction that has been deleted; it restarts at the
\* first instruction at most once per memset of the block, so the number of
\* its visits is bounded, and once it is over every instruction left in the
\* block has been visited.
C22_MemSetScanTerminates ==
  /\ ~scan.dead
  /\ ~scan.exhausted
  /\ scan.restarts <= NumMemSets(fLoop.body)
  /\ Len(scan.visited) <= Len(fLoop.body) * (NumMemSets(fLoop.body) + 1)
  /\ Range(scan.visited) \subseteq Ids(fLoop.body)
  /\ (pcF = "done" /\ scan # NoScan) =>
       /\ scan.finished
       /\ Ids(body) \subseteq Range(scan.visited)

\* A finished scan that widened a memset and went on to the instruction
\* behind it.
C22_Witness ==
  /\ pcF = "done"
  /\ scan.finished
  /\ Len(scan.visited) = 2
  /\ fLoop.body[1].op = "memset"
  /\ \E k \in Fired("widen") : attempts[k].stores = {1}
  /\ 1 \notin Ids(body)

\* C23: after a popcount or find-first-set rewrite, whenever the loop is
\* entered the trip counter starts at a value of at least 1, goes down by
\* exactly one per iteration without passing zero, and the loop runs as
\* many iterations as the original loop ran for the same seed, whichever
\* successor of the loop-back branch is the loop.
C23_TripCounter ==
  (pcN = "done" /\ matched \in {"popcount", "ffs"} /\ RewrittenOutcome.entered) =>
    /\ RewrittenOutcome.tc[1] >= 1
    /\ \A i \in 1 .. Len(RewrittenOutcome.tc) :
         /\ RewrittenOutcome.tc[i] >= 1
         /\ RewrittenOutcome.tc[i] = RewrittenOutcome.tc[1] - (i - 1)
    /\ ~RewrittenOutcome.stuck
    /\ RewrittenOutcome.iters = OriginalOutcome(idiomLoop).iters

\* The same for the rewrites whose trip counter, read as a signed number,
\* is not negative at the start.
C23_NonNegativeTripCount ==
  (/\ pcN = "done" /\ matched \in {"popcount", "ffs"} /\ RewrittenOutcome.entered
   /\ Eval(TcPhi.init, idiomLoop) < Pow2(TcPhi.bits - 1)) =>
    /\ RewrittenOutcome.tc[1] >= 1
    /\ RewrittenOutcome.iters = OriginalOutcome(idiomLoop).iters

\* The bit-scan intrinsics among the instructions the rewrite has created.
FFSCalls ==
  {newInsts[i] : i \in {j \in 1 .. Len(newInsts) : newInsts[j].op \in {"ctlz", "cttz"}}}

\* The precondition block ends in a conditional branch that enters the
\* preheader exactly when the seed is not zero.
ZeroGuard ==
  /\ idiomLoop.PreCondBr.exists
  /\ idiomLoop.PreCondBr.conditional
  /\ Entered(idiomLoop, idiomLoop.PreCond) <=> idiomLoop.x0 # 0

\* C24: a find-first-set rewrite of a loop whose counter phi is not used
\* outside the loop fires only below a precondition branch that enters the
\* preheader exactly when the seed is not zero; the intrinsic is created
\* with is_zero_undef set exactly in that case, and no execution that
\* reaches the preheader evaluates an is_zero_undef intrinsic on 0.
C24_ZeroGuard ==
  (pcN = "done" /\ matched = "ffs") =>
    /\ FFSCalls # {}
    /\ ~idiomLoop.cntPhiOut => ZeroGuard
    /\ \A c \in FFSCalls :
         /\ c.zu <=> ~idiomLoop.cntPhiOut
         /\ c.zu => ZeroGuard
         /\ RewrittenOutcome.entered =>
              ~(c.zu /\ Eval(c.args[1], idiomLoop) = 0)

\* A rewrite under a guard of either polarity, and one without a guard
\* whose intrinsic is evaluated on 0.
C24_Witness ==
  /\ pcN = "done"
  /\ matched = "ffs"
  /\ \/ /\ ~idiomLoop.cntPhiOut
        /\ idiomLoop.PreCond.pred = "EQ"
        /\ \E c \in FFSCalls : c.zu
        /\ RewrittenOutcome.entered
     \/ /\ idiomLoop.cntPhiOut
        /\ ~idiomLoop.PreCondBr.exists
        /\ \E c \in FFSCalls : ~c.zu /\ Eval(c.args[1], idiomLoop) = 0

\* C25 as stated: the find-first-set rewrite is applied only if the header
\* has exactly 6 instructions or the intrinsic's cost is below that of a
\* basic operation.
C25_CostAsStated ==
  (pcN = "done" /\ matched = "ffs") =>
    \/ idiomLoop.headerSize = IdiomCanonicalSize
    \/ idiomLoop.ffsCost = "TCC_Free"

\* C25: the find-first-set rewrite is applied only if the header has
\* exactly 6 instructions or the intrinsic costs no more than a basic
\* operation; a loop with another number of instructions and a costlier
\* intrinsic is left as it was by the find-first-set matcher.
C25_CostCheck ==
  /\ (pcN = "done" /\ matched = "ffs") =>
       \/ idiomLoop.headerSize = IdiomCanonicalSize
       \/ idiomLoop.ffsCost \in {"TCC_Free", "TCC_Basic"}
  /\ (/\ pcN \in {"done", "rejected"}
      /\ matched # "popcount"
      /\ idiomLoop.headerSize # IdiomCanonicalSize
      /\ idiomLoop.ffsCost = "TCC_Expensive") =>
       /\ matched # "ffs"
       /\ LbCond = idiomLoop.LbCond
       /\ PreCond = idiomLoop.PreCond
       /\ TcPhi = NoTcPhi
       /\ FFSCalls = {}
       /\ replaced = NoneReplaced

\* A rewrite of a seven-instruction header with an intrinsic of basic cost,
\* or of a six-instruction header with a costly one; or a costly one
\* refused for a header of another size that was otherwise accepted.
C25_Witness ==
  \/ /\ pcN = "done" /\ matched = "ffs"
     /\ idiomLoop.headerSize # IdiomCanonicalSize
     /\ idiomLoop.ffsCost = "TCC_Basic"
  \/ /\ pcN = "rejected"
     /\ idiomLoop.headerSize # IdiomCanonicalSize
     /\ idiomLoop.ffsCost = "TCC_Expensive"
     /\ detectShiftUntilZeroIdiom(idiomLoop, IdiomWork).ok

\* C26: the length passed to bcmp or memcmp is the mathematical product
\* (latch exit count + 1) * element bytes: neither the increment nor the
\* multiplication wraps, also for an exit count that is the largest value
\* of a type narrower than size_t.
C26_ByteCount ==
  bcmpCall # NoCall =>
    /\ BufLen(bcmpLoop.n, bcmpLoop.eb) < Pow2(SizeBits)
    /\ bcmpCall.len = BufLen(bcmpLoop.n, bcmpLoop.eb)

\* The same for exit counts below the largest value of their type.
C26_ByteCountBelowMax ==
  (bcmpCall # NoCall /\ bcmpLoop.n < Pow2(bcmpLoop.exitCountBits) - 1) =>
    bcmpCall.len = BufLen(bcmpLoop.n, bcmpLoop.eb)

\* The blocks control can reach from the blocks of S.
RECURSIVE ReachableFrom(_, _, _)
ReachableFrom(tm, bs, S) ==
  LET T == S \cup {b \in bs : \E p \in S : b \in Succs(tm, p)}
  IN IF T = S THEN S ELSE ReachableFrom(tm, bs, T)

\* The blocks a PHI of block x names as incoming.
IncomingBlocks(x) == {phis[x][k].blk : k \in 1 .. Len(phis[x])}

\* C27: when deleteDeadLoop is called on the original loop, the loop has
\* been marked as deleted, no block of it can be reached from the entry
\* (the only predecessor of the header outside the loop is the phony
\* preheader, which has no predecessor), every exit edge leads to the phony
\* successor, and no PHI of an exit block of the original loop names a
\* block of the loop.
C27_AtLoopDeletion ==
  pcB = "marked" =>
    /\ curLoop = "L"
    /\ curLoop \in markedDeleted
    /\ ReachableFrom(term, blocks, {"Entry"}) \cap LoopBlocks = {}
    /\ Preds(term, blocks, "Hdr") \ LoopBlocks = {"PhPre"}
    /\ Preds(term, blocks, "PhPre") = {}
    /\ \A k \in 1 .. Len(LoopExitEdges(term)) : LoopExitEdges(term)[k][2] = "PhSucc"
    /\ \A x \in {HdrExit(bcmpLoop), LatchExit(bcmpLoop)} :
         IncomingBlocks(x) \cap LoopBlocks = {}

\* The loop with one common exit block is about to be deleted.
C27_Witness ==
  /\ pcB = "marked"
  /\ bcmpLoop.sameExit
  /\ IncomingBlocks("S0") = {"Eq", "Uneq"}

\* The blocks of the function that lie on a cycle through h.
CycleBlocks(h) ==
  {b \in blocks : /\ b \in ReachableFrom(term, blocks, Succs(term, h) \cap blocks)
                  /\ h \in ReachableFrom(term, blocks, Succs(term, b) \cap blocks)}

\* The loops LoopInfo has blocks of.
LoopsKnown == {loopOf[b] : b \in blocks} \ {"none"}

\* How often the run of the function, from block b on, enters block x.
RECURSIVE VisitsOf(_, _, _)
VisitsOf(b, x, fuel) ==
  IF fuel = 0 THEN 0
  ELSE (IF b = x THEN 1 ELSE 0) +
       CASE term[b].k = "br" -> VisitsOf(term[b].t, x, fuel - 1)
         [] term[b].k = "condbr" ->
              VisitsOf(IF CondValue(bcmpLoop, bcmpCall, term[b].c, 0)
                       THEN term[b].t ELSE term[b].f, x, fuel - 1)
         [] OTHER -> 0

PhonyLoopBlocks == {"PhSucc", "Eq", "Uneq"}

\* C28: after the byte-compare rewrite LoopInfo matches the CFG. For a
\* nested loop the parent has one new child loop, whose blocks are the
\* dispatch block and the two outcome blocks and no other; each outcome
\* block has a back edge to the dispatch block, which no run takes: every
\* run enters the dispatch block once. For a top-level loop there is no
\* loop and no cycle, the dispatch block has taken the place of the
\* preheader, and none of the new blocks is in a loop.
C28_LoopForest ==
  pcB = "done" =>
    /\ PhonyLoopBlocks \subseteq blocks
    /\ blocks \cap {"Hdr", "Latch", "PhPre"} = {}
    /\ VisitsOf("Entry", "PhSucc", WalkFuel) = 1
    /\ IF bcmpLoop.nested
       THEN /\ LoopsKnown = {"Parent", "Phony"}
            /\ {b \in blocks : loopOf[b] = "Phony"} = PhonyLoopBlocks
            /\ CycleBlocks("PhSucc") = PhonyLoopBlocks
            /\ \A b \in {"Eq", "Uneq"} :
                 /\ term[b].k = "condbr"
                 /\ term[b].f = "PhSucc"
                 /\ term[b].t \notin PhonyLoopBlocks
                 /\ CondValue(bcmpLoop, bcmpCall, term[b].c, 0)
            /\ "Pre" \in blocks
            /\ loopOf["Pre"] = "Parent"
            /\ Succs(term, "Pre") = {"PhSucc"}
       ELSE /\ LoopsKnown = {}
            /\ \A b \in blocks : CycleBlocks(b) = {}
            /\ "Pre" \notin blocks
            /\ Preds(term, blocks, "PhSucc") = {"Entry"}
            /\ \A b \in PhonyLoopBlocks : loopOf[b] = "none"

\* The rewrite of a nested loop with one common exit block is finished.
C28_Witness ==
  /\ pcB = "done"
  /\ bcmpLoop.nested
  /\ bcmpLoop.sameExit
  /\ loopOf["Eq"] = "Phony"
  /\ term["Eq"].f = "PhSucc"

\* The element at which the original loop leaves: the first unequal one,
\* or the last one.
FirstUnequal(lp) ==
  IF AllElementsEqual(lp) THEN lp.n
  ELSE CHOOSE i \in 0 .. lp.n :
         ~ElementsEqual(lp, i) /\ \A j \in 0 .. i - 1 : ElementsEqual(lp, j)

\* The bytes the original loop reads: the elements up to the one at which
\* it leaves, of both buffers.
OriginalReads(lp) ==
  {<<buf, k>> : buf \in {SrcA(lp), SrcB(lp)},
                k \in 0 .. (FirstUnequal(lp) + 1) * lp.eb - 1}

\* The bytes bcmp or memcmp may read: all of the two regions it is given.
CallReads(call) == {<<buf, k>> : buf \in {call.a, call.b}, k \in 0 .. call.len - 1}

\* C29: the rewritten function reads no byte the original loop would not
\* have read for the same buffers, also when the original loop leaves
\* through the header at the first unequal element.
C29_ReadsWithinOriginal ==
  bcmpCall # NoCall => CallReads(bcmpCall) \subseteq OriginalReads(bcmpLoop)

\* The same for buffers that are equal up to the last compared element.
C29_ReadsIfEqualToTheLast ==
  (bcmpCall # NoCall /\ FirstUnequal(bcmpLoop) = bcmpLoop.n) =>
    CallReads(bcmpCall) \subseteq OriginalReads(bcmpLoop)

\* The exit edges of the loop as the matcher found it.
OriginalExitEdges == LoopExitEdges(InitTerm(bcmpLoop))

====
